---- MODULE Spec2Model ----
(***************************************************************************)
(* Model of the nova flight-computer state machine                         *)
(* (common/src/state_machine/executor.rs) driving an executable state      *)
(* graph (config-format/src/reference.rs) against the simulated data       *)
(* source (common/src/data_acquisition/mod.rs).                            *)
(*                                                                         *)
(* Time is counted in tenths of a second: Seconds(3.0) is 30.  The clock   *)
(* (Timestamp, traits.rs) is the platform's; it is modelled by the         *)
(* contract documented on GenericTimestamp: now() is the current instant,  *)
(* elapsed() the time between the receiver and now, 0 when the receiver    *)
(* is in the future.  The clock is read anew at every call of now() and     *)
(* elapsed(), several times within one execute(), and may have moved on    *)
(* between two of these readings.                                          *)
(***************************************************************************)
EXTENDS Integers, Sequences, FiniteSets, TLC

\* ------------------------------------------------------------------ bounds
\* Last instant (tenths of a second) to which the clock is advanced.
MaxTime == 45

\* Largest sample of a float (altitudes and bounds are drawn from 0 .. MaxFloat).
MaxFloat == 3

\* Capacity N of the FrozenVec that is exercised, and the items pushed
\* (1 .. MaxItem).
FrozenCap == 3
MaxItem == 2

\* How many times push is called on one FrozenVec.
MaxPushes == 5

\* The portable configurations converted hold up to MaxConvStates states,
\* and the arena up to MaxArena allocation units (one state, one check or
\* one command each).
MaxConvStates == 2

\* The data rates (u16) given to with_state go up to MaxRate.
MaxRate == 2

\* The Buffer and the DataBuffer hold BufSize bytes; the bytes and field
\* values written are 0 .. MaxByte, at most MaxSrc bytes in one write_bytes,
\* at most MaxBufCalls calls of write_bytes are made on a Buffer and
\* MaxWrites calls of write on a DataBuffer.
BufSize == 5
MaxByte == 1
MaxSrc == 3
MaxBufCalls == 3
MaxWrites == 3
MaxArena == 8

\* The clock of the simulated data sources runs from 0 to MaxClock.
MaxClock == 6

\* The buffer and the extra array of the BufferedBuffer, which are also
\* the sizes of the Buffer and the DataBuffer the timed writes go to, the
\* ticks that pass between two writes (up to MaxSmallTicks ticks on top of
\* up to MaxLongWaits times UPPER_BOUND ticks) and the number of timed
\* writes.
LogBufSize == 9
LogExtraSize == 6
MaxSmallTicks == 1
MaxLongWaits == 2
MaxLogWrites == 2

\* The clock is let count on before each of the first MaxReads reads of it
\* that one write makes, on at most MaxLate of them.
MaxReads == 3
MaxLate == 1

\* The platform clock moves on, by one, before at most MaxDrift of the
\* readings that one execute() makes of it.
MaxDrift == 1

\* ------------------------------------------------------- program constants
\* u16::MAX as u32 / 9 * 8
UPPER_BOUND == 58248
U16_MAX == 65535
MAX_STATES == 16
MAX_CHECKS_PER_STATE == 3
MAX_COMMANDS_PER_STATE == 3
\* DataWorkspace::new: every simulated source switches 2 s after creation.
SOURCE_SWITCH == 20

\* ------------------------------------------------------------ option types
\* Option<T>: None is the empty sequence, Some(x) the one-element sequence.
None == << >>
Some(x) == << x >>

\* The one element of a set of one.
Only(S) == CHOOSE x \in S : TRUE

\* ------------------------------------------------------------ graph values
\* reference::StateTransition
Transition(target) == [tag |-> "Transition", state |-> target]
Abort(target) == [tag |-> "Abort", state |-> target]

\* novafc_config_format::Value
BoolValue(b) == [shape |-> "Bool", v |-> b]

\* CheckData: the flag variants carry the expected boolean.
Pyro1Continuity(b) == [variant |-> "Pyro1Continuity", cond |-> b]
Pyro2Continuity(b) == [variant |-> "Pyro2Continuity", cond |-> b]
Pyro3Continuity(b) == [variant |-> "Pyro3Continuity", cond |-> b]

\* FloatCondition; floats are modelled by integers.
GreaterThan(b) == [op |-> "GreaterThan", bound |-> b, upper_bound |-> 0,
                   lower_bound |-> 0]
LessThan(b) == [op |-> "LessThan", bound |-> b, upper_bound |-> 0,
                lower_bound |-> 0]
Between(upper, lower) == [op |-> "Between", bound |-> 0, upper_bound |-> upper,
                          lower_bound |-> lower]

\* CheckData::Altitude and CheckData::ApogeeFlag
Altitude(condition) == [variant |-> "Altitude", cond |-> condition]
ApogeeFlag(b) == [variant |-> "ApogeeFlag", cond |-> b]

\* Value::F32
F32Value(f) == [shape |-> "F32", v |-> f]

\* CheckKind
CheckKinds == {"Altitude", "ApogeeFlag", "Pyro1Continuity", "Pyro2Continuity",
               "Pyro3Continuity"}

\* CommandValue
Beacon(b) == [kind |-> "Beacon", value |-> BoolValue(b)]
DataRate(r) == [kind |-> "DataRate", value |-> [shape |-> "U16", v |-> r]]

Pyro1(b) == [kind |-> "Pyro1", value |-> BoolValue(b)]
Pyro2(b) == [kind |-> "Pyro2", value |-> BoolValue(b)]
Pyro3(b) == [kind |-> "Pyro3", value |-> BoolValue(b)]

\* Value::U16
U16Value(r) == [shape |-> "U16", v |-> r]

\* CommandKind
CommandKinds == {"Pyro1", "Pyro2", "Pyro3", "Beacon", "DataRate"}

\* A call that panics returns nothing.
Panicked == [kind |-> "Panic", value |-> [shape |-> "None", v |-> 0]]

\* CommandKind::with_bool
with_bool(self, val) ==
    CASE self = "Pyro1" -> Pyro1(val)
      [] self = "Pyro2" -> Pyro2(val)
      [] self = "Pyro3" -> Pyro3(val)
      [] self = "Beacon" -> Beacon(val)
      [] self = "DataRate" -> Panicked

\* CommandKind::with_u16
with_u16_any(self, val) == DataRate(val)

with_u16(self, val) ==
    IF self = "DataRate" THEN DataRate(val) ELSE Panicked

\* CommandKind::with_state; the F32 arm is todo!(), which panics.
with_state(self, state) ==
    CASE state.shape = "Bool" -> with_bool(self, state.v)
      [] state.shape = "U16" -> with_u16(self, state.v)
      [] state.shape = "F32" -> Panicked

\* CommandValue::to_value
to_value(self) ==
    CASE self.kind \in {"Pyro1", "Pyro2", "Pyro3", "Beacon"}
            -> BoolValue(self.value.v)
      [] self.kind = "DataRate" -> U16Value(self.value.v)
      [] OTHER -> self.value

\* reference::Check::new, reference::Timeout::new, reference::Command::new
\* (was_executed, the one mutable field of a Command, is the variable
\* was_executed below and starts FALSE).
Check(data, transition) == [data |-> data, transition |-> transition]
Timeout(time, transition) == [time |-> time, transition |-> transition]
Command(object, delay) == [object |-> object, delay |-> delay]

\* reference::State::new_complete
State(id, checks, commands, timeout) ==
    [id |-> id, checks |-> checks, commands |-> commands, timeout |-> timeout]

\* ------------------------------------------------------------- conversion
\* index::StateTransition and index::Check, the portable form.
IndexTransition(i) == [tag |-> "Transition", index |-> i]
IndexAbort(i) == [tag |-> "Abort", index |-> i]
IndexCheck(data, transition) == [data |-> data, transition |-> transition]

\* A resolution of every valid target to the first state of the slice.
transition_index_to_ref_first(t, ref_states) ==
    IF t.index < Len(ref_states)
    THEN [tag |-> t.tag, state |-> ref_states[1]]
    ELSE [tag |-> "Panic", state |-> t.index]

\* transition_index_to_ref; ref_states is the slice of executable states
\* (their ids), and get(..).unwrap() panics on an index outside of it.
transition_index_to_ref(t, ref_states) ==
    IF t.index < Len(ref_states)
    THEN [tag |-> t.tag, state |-> ref_states[t.index + 1]]
    ELSE [tag |-> "Panic", state |-> t.index]

\* The conversion of a check with an absent transition made to point to
\* the first state.
check_index_to_ref_defaulted(check, ref_states) ==
    Check(check.data,
          IF check.transition = None
          THEN Some(Transition(ref_states[1]))
          ELSE Some(transition_index_to_ref(check.transition[1], ref_states)))

\* The conversion of one check in indices_to_refs.
check_index_to_ref(check, ref_states) ==
    Check(check.data,
          IF check.transition = None
          THEN None
          ELSE Some(transition_index_to_ref(check.transition[1], ref_states)))

\* index::Timeout::new and index::State::new
IndexTimeout(time, transition) == [time |-> time, transition |-> transition]
IndexState(checks, commands, timeout) ==
    [checks |-> checks, commands |-> commands, timeout |-> timeout]

\* LocalAlloc::alloc on the bump arena: what is left after carving units
\* out of it, None when they do not fit.
alloc(left, units) == IF units <= left THEN Some(left - units) ELSE None

\* The body of the loop over a state's checks in indices_to_refs: resolve
\* the transition, allocate the check, push it.  checks is the executable
\* state's collection so far, left what the arena still holds.
convert_check_skipping(checks, check, ref_states, left) ==
    LET ref_check == check_index_to_ref(check, ref_states)
        mem == alloc(left, 1)
    IN  IF ref_check.transition # None /\ ref_check.transition[1].tag = "Panic"
        THEN [outcome |-> "panic index", items |-> checks, left |-> left]
        ELSE IF mem = None
        THEN [outcome |-> "ok", items |-> checks, left |-> left]
        ELSE IF Len(checks) >= MAX_CHECKS_PER_STATE
        THEN [outcome |-> "panic capacity", items |-> checks, left |-> mem[1]]
        ELSE [outcome |-> "ok", items |-> Append(checks, ref_check),
              left |-> mem[1]]

\* The same with an executable collection one element smaller than the
\* portable one.
convert_check_one_short(checks, check, ref_states, left) ==
    LET ref_check == check_index_to_ref(check, ref_states)
        mem == alloc(left, 1)
    IN  IF ref_check.transition # None /\ ref_check.transition[1].tag = "Panic"
        THEN [outcome |-> "panic index", items |-> checks, left |-> left]
        ELSE IF mem = None
        THEN [outcome |-> "panic alloc", items |-> checks, left |-> left]
        ELSE IF Len(checks) + 1 >= MAX_CHECKS_PER_STATE
        THEN [outcome |-> "panic capacity", items |-> checks, left |-> mem[1]]
        ELSE [outcome |-> "ok", items |-> Append(checks, ref_check),
              left |-> mem[1]]

convert_check(checks, check, ref_states, left) ==
    LET ref_check == check_index_to_ref(check, ref_states)
        mem == alloc(left, 1)
    IN  IF ref_check.transition # None /\ ref_check.transition[1].tag = "Panic"
        THEN [outcome |-> "panic index", items |-> checks, left |-> left]
        ELSE IF mem = None
        THEN [outcome |-> "panic alloc", items |-> checks, left |-> left]
        ELSE IF Len(checks) >= MAX_CHECKS_PER_STATE
        THEN [outcome |-> "panic capacity", items |-> checks, left |-> mem[1]]
        ELSE [outcome |-> "ok", items |-> Append(checks, ref_check),
              left |-> mem[1]]

\* The body of the loop over a state's commands in indices_to_refs.
convert_command(commands, command, left) ==
    LET mem == alloc(left, 1)
    IN  IF mem = None
        THEN [outcome |-> "panic alloc", items |-> commands, left |-> left]
        ELSE IF Len(commands) >= MAX_COMMANDS_PER_STATE
        THEN [outcome |-> "panic capacity", items |-> commands,
              left |-> mem[1]]
        ELSE [outcome |-> "ok", items |-> Append(commands, command),
              left |-> mem[1]]

\* The timeout indices_to_refs stores into the executable state's cell.
convert_timeout_to_abort(timeout, ref_states) ==
    Timeout(timeout.time,
            [transition_index_to_ref(timeout.transition, ref_states)
                EXCEPT !.tag = IF @ = "Panic" THEN @ ELSE "Abort"])

convert_timeout(timeout, ref_states) ==
    Timeout(timeout.time,
            transition_index_to_ref(timeout.transition, ref_states))

\* --------------------------------------------------------- configurations
\* The executable graphs the engine is run on.  A graph is the sequence of
\* its states; the state with id i is element i + 1.

\* Safe / Poweron / Launch, default Poweron.
ScenarioStates ==
    << State(0, << >>, << >>, None),
       State(1, << Check(Pyro1Continuity(TRUE), Some(Transition(2))) >>, << >>,
             Some(Timeout(30, Abort(0)))),
       State(2, << >>, << Command(DataRate(16), 40) >>, None) >>

\* State 0 holds three checks A, B, C and a timeout; once the sources have
\* switched to true A is unsatisfied and B and C are satisfied.
ShortCircuitStates ==
    << State(0, << Check(Pyro1Continuity(FALSE), Some(Transition(3))),
                   Check(Pyro2Continuity(TRUE), Some(Transition(1))),
                   Check(Pyro3Continuity(TRUE), Some(Transition(2))) >>,
             << Command(Beacon(TRUE), 5) >>,
             Some(Timeout(25, Abort(3)))),
       State(1, << >>, << >>, None),
       State(2, << >>, << >>, None),
       State(3, << >>, << >>, None) >>

\* A cycle 0 -> 1 -> 0 driven by timeouts, each state with commands.
CycleStates ==
    << State(0, << >>, << Command(Beacon(TRUE), 5), Command(DataRate(16), 5) >>,
             Some(Timeout(20, Transition(1)))),
       State(1, << Check(Pyro2Continuity(TRUE), None) >>,
             << Command(Beacon(FALSE), 10) >>,
             Some(Timeout(15, Transition(0)))) >>

\* One state with a 2.0 s timeout to Y (state 1) and a check that is
\* satisfied by no value the sources deliver while it is inert.
TimeoutStates ==
    << State(0, << Check(Pyro1Continuity(TRUE), None) >>, << >>,
             Some(Timeout(20, Transition(1)))),
       State(1, << >>, << Command(Beacon(TRUE), 5) >>, None) >>

\* A state whose checks read the altitude and the apogee flag.
AltitudeStates ==
    << State(0, << Check(Altitude(GreaterThan(100)), Some(Transition(1))),
                   Check(ApogeeFlag(TRUE), Some(Transition(1))) >>,
             << >>, Some(Timeout(10, Abort(1)))),
       State(1, << >>, << >>, None) >>

\* A state whose three commands and timeout come due together or later, and
\* whose successor holds a command without delay.
HandoverStates ==
    << State(0, << >>,
             << Command(Pyro1(TRUE), 10), Command(Pyro2(TRUE), 10),
                Command(Beacon(TRUE), 20) >>,
             Some(Timeout(10, Transition(1)))),
       State(1, << >>, << Command(Pyro3(TRUE), 0) >>, None) >>

Configs ==
    {"scenario", "shortcircuit", "cycle", "timeout", "altitude", "handover"}

\* ConfigFile::states
states(c) ==
    CASE c = "scenario" -> ScenarioStates
      [] c = "shortcircuit" -> ShortCircuitStates
      [] c = "cycle" -> CycleStates
      [] c = "altitude" -> AltitudeStates
      [] c = "handover" -> HandoverStates
      [] OTHER -> TimeoutStates

\* ConfigFile::default_state
default_state(c) == IF c = "scenario" THEN 1 ELSE 0

\* Instants at which the simulated sources switch from initial to eventual:
\* before the first tick, as DataWorkspace::new sets it, or never.
TransitionAts == {0, SOURCE_SWITCH, MaxTime + 1}

VARIABLES
    config,                \* which graph the engine runs
    now,                   \* the platform clock
    transition_at,         \* DurationBased::transition_at of the sources
    current_state,         \* StateMachine::current_state (a state id)
    start_time,            \* StateMachine::start_time
    last_transition_time,  \* StateMachine::last_transition_time
    was_executed,          \* Command::was_executed, per state and command
    sink,                  \* what the command sink (Controls::set) received:
                           \* records [object, time], as Dummy::set prints them
    activation_fired,      \* commands whose flag was set in this activation
    outcome,               \* what the last execute() did
    probe,                 \* the last evaluation of a check's data on a value
    revision,              \* which FrozenVec source is run
    buf,                   \* FrozenVec::buf (buffer): slot -> element, 0 when
                           \* the slot is uninitialised
    len,                   \* FrozenVec::len
    push_pc,               \* the item of a push that is between its two writes
    iter_idx,              \* Iter::idx of the iterator, None before iter()
    pushed,                \* the items pushed so far, in order
    yielded,               \* what the iterator has yielded so far
    last_op,               \* the last FrozenVec operation and its result
    push_calls,            \* how many times push was called
    portable,              \* the index::ConfigFile given to indices_to_refs
    arena,                 \* what is left of the arena, in allocation units
    ref,                   \* the executable states built so far
    conv_pos,              \* where indices_to_refs stands: the state it is
                           \* at, the checks and commands of it done
    timeout_sets,          \* how often each state's timeout cell was set
    conv_result,           \* how indices_to_refs ended, if it has
    cmd_probe,             \* the last call of CommandKind::with_state
    buffer_kind,           \* what is exercised: "Buffer", "BufferedBuffer",
                           \* "DataBuffer", or "Reader", a Buffer read from
    buffer,                \* the Buffer: its bytes buf and its offset
    extra,                 \* BufferedBuffer::extra
    flush_info,            \* the FlushInfo that is alive, if one is
    storage,               \* the bytes the user has stored away
    written,               \* the data items written, in order
    since_flush,           \* the bytes write_bytes took since the last flush
    buf_op,                \* the last Buffer operation and its result
    buf_calls,             \* how many writes were made
    cleared,               \* clear has dropped bytes that were written
    pending,               \* the TimeManager: ticks since the last ticks()
    consumed,              \* the sum of what the calls of ticks() returned
    acquisition,           \* which data acquisition source is run
    source,                \* the DurationBased data object
    clock,                 \* Instant::now() of the data sources
    reading,               \* the last DurationBased::read and its result
    eventual_seen          \* a read has returned the eventual value

engine_vars == << config, now, transition_at, current_state, start_time,
                  last_transition_time, was_executed, sink, activation_fired,
                  outcome >>

frozen_vars == << revision, buf, len, push_pc, iter_idx, pushed, yielded,
                  last_op, push_calls >>

conv_vars == << portable, arena, ref, conv_pos, timeout_sets, conv_result >>

vars == << config, now, transition_at, current_state, start_time,
           last_transition_time, was_executed, sink, activation_fired,
           outcome, probe, revision, buf, len, push_pc, iter_idx, pushed,
           yielded, last_op, push_calls, portable, arena, ref, conv_pos,
           timeout_sets, conv_result, cmd_probe, buffer_kind, buffer, extra,
           flush_info, storage, written, since_flush, buf_op, buf_calls,
           cleared, pending, consumed, acquisition, source, clock, reading,
           eventual_seen >>

checks_vars == << probe, cmd_probe >>

buffer_vars == << buffer_kind, buffer, extra, flush_info, storage, written,
                 since_flush, buf_op, buf_calls, cleared, pending, consumed >>

source_vars == << acquisition, source, clock, reading, eventual_seen >>

\* What the actions of each specification leave alone.
outside_engine ==
    << checks_vars, frozen_vars, conv_vars, buffer_vars, source_vars >>
outside_checks ==
    << engine_vars, frozen_vars, conv_vars, buffer_vars, source_vars >>
outside_frozen ==
    << engine_vars, checks_vars, conv_vars, buffer_vars, source_vars >>
outside_conv ==
    << engine_vars, checks_vars, frozen_vars, buffer_vars, source_vars >>
outside_buffer ==
    << engine_vars, checks_vars, frozen_vars, conv_vars, source_vars >>
outside_source ==
    << engine_vars, checks_vars, frozen_vars, conv_vars, buffer_vars >>

StateOf(s) == states(config)[s + 1]
StateIds == 0 .. (Len(states(config)) - 1)

\* ------------------------------------------------------------ data source
\* DurationBased::read
read(t) == IF t > transition_at THEN BoolValue(TRUE) ELSE BoolValue(FALSE)

\* CheckData::kind
kind(data) ==
    CASE data.variant = "Altitude" -> "Altitude"
      [] data.variant = "ApogeeFlag" -> "Altitude"
      [] data.variant = "Pyro1Continuity" -> "Pyro1Continuity"
      [] data.variant = "Pyro2Continuity" -> "Pyro2Continuity"
      [] OTHER -> "Pyro3Continuity"

\* DataWorkspace::get_object
get_object(object, t) ==
    IF object = "ApogeeFlag" THEN [shape |-> "Unimplemented", v |-> FALSE]
    ELSE read(t)

\* The comparison of a check's data with a live value, as written in the
\* body of execute_check that the source keeps disabled in a comment: the
\* check is satisfied or not, and a value of the wrong shape is the
\* unreachable!() arm, which panics.
satisfied(data, value) ==
    CASE data.variant \in {"ApogeeFlag", "Pyro1Continuity", "Pyro2Continuity",
                           "Pyro3Continuity"} /\ value.shape = "Bool"
            -> IF data.cond = value.v THEN "satisfied" ELSE "unsatisfied"
      [] data.variant = "Altitude" /\ value.shape = "F32"
            -> IF CASE data.cond.op = "LessThan" -> value.v < data.cond.bound
                    [] data.cond.op = "GreaterThan" -> value.v > data.cond.bound
                    [] OTHER -> value.v >= data.cond.upper_bound
                                /\ value.v <= data.cond.lower_bound
               THEN "satisfied" ELSE "unsatisfied"
      [] OTHER -> "panic"

\* The two sources of the data acquisition module.
Acquisitions == {"data_acquisition", "data-acquisition"}

\* DurationBased::new
DurationBasedNew(initial, eventual, at) ==
    [initial |-> initial, eventual |-> eventual, transition_at |-> at]

\* DurationBased::read at the instant t, in either source: data_acquisition
\* asks whether now is after transition_at, data-acquisition whether
\* transition_at is after now.
duration_based_read(acq, self, t) ==
    IF acq = "data_acquisition"
    THEN IF t > self.transition_at THEN self.eventual ELSE self.initial
    ELSE IF self.transition_at > t THEN self.eventual ELSE self.initial

NoReading ==
    [done |-> FALSE, at |-> 0, value |-> BoolValue(FALSE),
     after_eventual |-> FALSE]

\* ------------------------------------------------------------------ clock
\* The platform clock as one call sees it: the instant it shows and the
\* steps it makes before each of the readings to come.
Clock(t, later) == [now |-> t, later |-> later]

\* GenericTimestamp::now: the clock steps and is read; the instant read is
\* the now of the clock returned.
timestamp_now(clk) ==
    IF clk.later = << >> THEN clk
    ELSE Clock(clk.now + Head(clk.later), Tail(clk.later))

\* GenericTimestamp::elapsed: a reading of the clock of its own; 0 when the
\* timestamp is after the instant read.
elapsed(ts, clk) ==
    Only({[ret |-> IF c.now >= ts THEN c.now - ts ELSE 0, clock |-> c] :
             c \in {timestamp_now(clk)}})

\* ----------------------------------------------------------------- engine
\* The engine during one call: the fields of StateMachine, the flags of the
\* commands and the clock.
Machine(state, ltt, exec, clk) ==
    [current_state |-> state, last_transition_time |-> ltt,
     was_executed |-> exec, clock |-> clk]

\* execute_command that holds a command back once an earlier command of the
\* state has been executed.
execute_command_alone(m, i) ==
    IF /\ ~m.was_executed[m.current_state][i]
       /\ \A j \in 1 .. (i - 1) : ~m.was_executed[m.current_state][j]
    THEN Only({IF e.ret >= StateOf(m.current_state).commands[i].delay
               THEN [m EXCEPT !.was_executed[m.current_state][i] = TRUE,
                              !.clock = e.clock]
               ELSE [m EXCEPT !.clock = e.clock] :
                  e \in {elapsed(m.last_transition_time, m.clock)}})
    ELSE m

\* StateMachine::execute_command: the clock is read for a command that is
\* not yet executed, and no other. The call of the command sink is disabled
\* in the source.
execute_command(m, i) ==
    IF ~m.was_executed[m.current_state][i]
    THEN Only({IF e.ret >= StateOf(m.current_state).commands[i].delay
               THEN [m EXCEPT !.was_executed[m.current_state][i] = TRUE,
                              !.clock = e.clock]
               ELSE [m EXCEPT !.clock = e.clock] :
                  e \in {elapsed(m.last_transition_time, m.clock)}})
    ELSE m

\* The loop over the commands in execute_state.
RECURSIVE run_commands(_, _)
run_commands(m, i) ==
    IF i > Len(StateOf(m.current_state).commands) THEN m
    ELSE run_commands(execute_command(m, i), i + 1)

\* The commands whose flag the loop over the commands sets, in the order
\* in which it sets them.
RECURSIVE executed_in_order(_, _)
executed_in_order(m, i) ==
    IF i > Len(StateOf(m.current_state).commands) THEN << >>
    ELSE Only({(IF after.was_executed # m.was_executed THEN << i >>
                ELSE << >>) \o executed_in_order(after, i + 1) :
                  after \in {execute_command(m, i)}})

\* StateMachine::execute_check: the evaluation is disabled, the function
\* returns None for every check.
execute_check(check) == None

\* The loop over the checks in execute_state.
RECURSIVE run_checks(_, _)
run_checks(s, i) ==
    IF i > Len(StateOf(s).checks) THEN None
    ELSE IF execute_check(StateOf(s).checks[i]) # None
         THEN execute_check(StateOf(s).checks[i])
         ELSE run_checks(s, i + 1)

\* check_timeout with a strict comparison: a timeout that misses the tick at
\* exactly its duration.
check_timeout_strict(m) ==
    IF StateOf(m.current_state).timeout # None
    THEN Only({[selected |->
                    IF e.ret > StateOf(m.current_state).timeout[1].time
                    THEN Some(StateOf(m.current_state).timeout[1].transition)
                    ELSE None,
                clock |-> e.clock] : e \in {elapsed(start_time, m.clock)}})
    ELSE [selected |-> None, clock |-> m.clock]

\* The timeout part of execute_state: the clock is read when the state has
\* a timeout.
check_timeout(m) ==
    IF StateOf(m.current_state).timeout # None
    THEN Only({[selected |->
                    IF e.ret >= StateOf(m.current_state).timeout[1].time
                    THEN Some(StateOf(m.current_state).timeout[1].transition)
                    ELSE None,
                clock |-> e.clock] : e \in {elapsed(start_time, m.clock)}})
    ELSE [selected |-> None, clock |-> m.clock]

\* The checks and the timeout of execute_state, on the engine as the loop
\* over the commands left it: the transition selected, if any, and the
\* clock afterwards.
select(m) ==
    IF run_checks(m.current_state, 1) # None
    THEN [selected |-> run_checks(m.current_state, 1), clock |-> m.clock]
    ELSE check_timeout(m)

\* StateMachine::execute_state: the commands, then the checks, then the
\* timeout; the engine afterwards and the transition selected, if any.
execute_state(m) ==
    Only({[m |-> [ran.m EXCEPT !.clock = ran.sel.clock],
           selected |-> ran.sel.selected] :
              ran \in {[m |-> c, sel |-> select(c)] :
                          c \in {run_commands(m, 1)}}})

\* transition without the reset of the activation time.
transition_keeps_time(m, tr) ==
    [m EXCEPT !.current_state = tr.state,
              !.clock = timestamp_now(@)]

\* transition that resets the activation time for Transition only.
transition_abort_keeps_time(m, tr) ==
    [m EXCEPT !.current_state = tr.state,
              !.last_transition_time =
                  IF tr.tag = "Abort" THEN @ ELSE timestamp_now(m.clock).now,
              !.clock = timestamp_now(@)]

\* StateMachine::transition: the new current_state, and the activation time
\* from a reading of the clock of its own. The reading for the message
\* printed under the std feature leaves no trace in the engine; the step
\* the clock makes before it counts as part of the step before this one.
transition(m, tr) ==
    [m EXCEPT !.current_state = tr.state,
              !.last_transition_time = timestamp_now(m.clock).now,
              !.clock = timestamp_now(@)]

\* execute as a loop: the state entered is executed in the same tick.
execute_from_chained(m) ==
    Only({IF st.selected # None
          THEN Only({IF again.sel.selected # None
                     THEN transition([again.to EXCEPT
                                         !.clock = again.sel.clock],
                                     again.sel.selected[1])
                     ELSE [again.to EXCEPT !.clock = again.sel.clock] :
                        again \in {[to |-> to, sel |-> select(to)] :
                                     to \in {transition(st.m,
                                                        st.selected[1])}}})
          ELSE st.m : st \in {execute_state(m)}})

\* execute that restarts the activation time on every tick.
execute_from_restarts(m) ==
    Only({IF st.selected # None
          THEN transition(st.m, st.selected[1])
          ELSE [st.m EXCEPT !.last_transition_time = st.m.clock.now] :
             st \in {execute_state(m)}})

\* execute that looks at the checks and the timeout first and then runs
\* the commands of the state it has ended up in.
execute_from_commands_last(m) ==
    Only({IF sel.selected # None
          THEN run_commands(transition([m EXCEPT !.clock = sel.clock],
                                       sel.selected[1]), 1)
          ELSE run_commands([m EXCEPT !.clock = sel.clock], 1) :
             sel \in {select(m)}})

\* StateMachine::execute on the engine m: the engine afterwards.
execute_from(m) ==
    Only({IF st.selected # None
          THEN transition(st.m, st.selected[1])
          ELSE st.m : st \in {execute_state(m)}})

\* ----------------------------------------------------------------- Buffer
\* A Buffer is its bytes buf and its offset.
Min(a, b) == IF a <= b THEN a ELSE b


RECURSIVE sum(_)
sum(seq) == IF seq = << >> THEN 0 ELSE Head(seq) + sum(Tail(seq))

\* Buffer::new
NewBuffer(slice) == [buf |-> slice, offset |-> 0]

\* The bytes of buf with src copied in behind position at, as far as it fits.
copy_from_slice(dst, at, src) ==
    [i \in 1 .. Len(dst) |->
        IF i > at /\ i <= at + Len(src) THEN src[i - at] ELSE dst[i]]

\* Buffer::remaining
remaining(self) == Len(self.buf) - self.offset

\* Buffer::clear
clear(self) == [self EXCEPT !.offset = 0]

\* Buffer::data
buffer_data(self) == SubSeq(self.buf, 1, self.offset)

\* Buffer::write_bytes: the buffer afterwards and the count returned.
write_bytes_unclipped(self, src) ==
    [buffer |-> [buf |-> copy_from_slice(self.buf, self.offset, src),
                 offset |-> Min(self.offset + Len(src), Len(self.buf))],
     ret |-> Len(src)]

write_bytes(self, src) ==
    LET n == Min(Len(src), remaining(self))
    IN  [buffer |-> [buf |-> copy_from_slice(self.buf, self.offset,
                                             SubSeq(src, 1, n)),
                     offset |-> self.offset + n],
         ret |-> n]

\* Buffer::flush: the buffer afterwards and the slice returned.
flush_keeping(self) ==
    [buffer |-> self, ret |-> SubSeq(self.buf, 1, self.offset)]

flush(self) ==
    [buffer |-> clear(self), ret |-> SubSeq(self.buf, 1, self.offset)]

\* A u32 is kept as its two 16-bit halves, hi and lo, and stands for
\* hi * 65536 + lo: the integers that are counted with here end below
\* 2^31, a u32 at 4294967295. A sum of u32s is kept the same way, with a hi
\* that may pass U16_MAX.
Halves(hi, lo) == [hi |-> hi, lo |-> lo]

\* The u32 of a natural number below 2^31.
u32(n) == Halves(n \div (U16_MAX + 1), n % (U16_MAX + 1))

\* u32::MAX
U32_MAX == Halves(U16_MAX, U16_MAX)

\* The sum of two such numbers.
plus(a, b) ==
    Halves(a.hi + b.hi + (a.lo + b.lo) \div (U16_MAX + 1),
           (a.lo + b.lo) % (U16_MAX + 1))

\* Such a number without its seven low bits, and with seven low bits put
\* under it.
shift_right_7(w) ==
    Halves(w.hi \div 128, (w.hi % 128) * 512 + w.lo \div 128)
shift_left_7(w, low) ==
    Halves(w.hi * 128 + (w.lo * 128 + low) \div (U16_MAX + 1),
           (w.lo * 128 + low) % (U16_MAX + 1))

\* novafc_data_format::Data, its variants by their index in the enum, and
\* Message. The fields of BarometerData, TicksPerSecond and Heartbeat are
\* u32s, those of BarometerCalibration u16s and those of
\* HighGAccelerometerData i16s.
BarometerCalibration(sens, off, tcs, tco, tref, tempsens) ==
    [variant |-> 0, fields |-> << sens, off, tcs, tco, tref, tempsens >>]
BarometerData(temprature, pressure) ==
    [variant |-> 1, fields |-> << temprature, pressure >>]
HighGAccelerometerData(x, y, z) == [variant |-> 2, fields |-> << x, y, z >>]
TicksPerSecond(n) == [variant |-> 3, fields |-> << n >>]
Heartbeat(n) == [variant |-> 4, fields |-> << n >>]
Message(t, d) == [ticks_since_last_message |-> t, data |-> d]

\* The number of fields of a Data variant, 0 for an index that is none.
FieldCount(variant) ==
    CASE variant = 0 -> 6
      [] variant = 1 -> 2
      [] variant = 2 -> 3
      [] variant = 3 -> 1
      [] variant = 4 -> 1
      [] OTHER -> 0

\* The integer type of the fields of a Data variant.
FieldType(variant) ==
    CASE variant = 0 -> "u16"
      [] variant = 2 -> "i16"
      [] OTHER -> "u32"

\* A TimeManager is the number of ticks counted since the last call of
\* ticks and the ticks the clock is going to count on before each of the
\* reads to come.  TimeManager::peek_ticks returns the count,
\* TimeManager::ticks returns it and starts counting anew.
TimeManager(count, later) == [count |-> count, later |-> later]

\* NullTimeManager: no tick ever passes.
NullTimeManager == TimeManager(0, << >>)

\* The clock at its next read.
counted_on(time) ==
    IF time.later = << >> THEN time
    ELSE TimeManager(time.count + Head(time.later), Tail(time.later))

peek_ticks(time) ==
    [ret |-> counted_on(time).count, time |-> counted_on(time)]
ticks(time) ==
    [ret |-> counted_on(time).count,
     time |-> TimeManager(0, counted_on(time).later)]

\* The variable-length encoding of an unsigned integer: seven bits a byte,
\* the low ones first, the high bit set on every byte but the last.
RECURSIVE varint(_)
varint(v) ==
    IF v < 128 THEN << v >>
    ELSE << (v % 128) + 128 >> \o varint(v \div 128)

\* The same encoding of a u32.
RECURSIVE varint_u32(_)
varint_u32(w) ==
    IF w.hi = 0 /\ w.lo < 128 THEN << w.lo >>
    ELSE << (w.lo % 128) + 128 >> \o varint_u32(shift_right_7(w))

\* A signed integer is folded onto the unsigned ones before it is encoded:
\* 0, -1, 1, -2, ... onto 0, 1, 2, 3, ...
zigzag(v) == IF v >= 0 THEN 2 * v ELSE -2 * v - 1
unzigzag(n) == IF n % 2 = 0 THEN n \div 2 ELSE -((n + 1) \div 2)

\* The bytes of one field.
encode_field(type, v) ==
    CASE type = "i16" -> varint(zigzag(v))
      [] type = "u16" -> varint(v)
      [] OTHER -> varint_u32(v)

\* The integers a Message is serialized as, each with its bytes: the ticks,
\* the index of the variant and the fields of the variant.
encoded(msg) ==
    << varint(msg.ticks_since_last_message), varint(msg.data.variant) >>
    \o [i \in 1 .. Len(msg.data.fields) |->
           encode_field(FieldType(msg.data.variant), msg.data.fields[i])]

RECURSIVE flatten(_)
flatten(chunks) ==
    IF chunks = << >> THEN << >> ELSE Head(chunks) \o flatten(Tail(chunks))

\* postcard::to_slice on a Message with room enough: the slice written.
to_slice(msg) == flatten(encoded(msg))

\* postcard::to_slice on the unused bytes dst: the integers are written one
\* after the other behind position at, each whole or not at all; the first
\* that does not fit ends the writing with SerializeBufferFull.
RECURSIVE try_extend(_, _, _)
try_extend(dst, at, chunks) ==
    IF chunks = << >> THEN [ok |-> TRUE, buf |-> dst, at |-> at]
    ELSE IF at + Len(Head(chunks)) > Len(dst)
    THEN [ok |-> FALSE, buf |-> dst, at |-> at]
    ELSE try_extend(copy_from_slice(dst, at, Head(chunks)),
                    at + Len(Head(chunks)), Tail(chunks))

\* The serializing half of Buffer::try_write: the message is written behind
\* offset when it fits; when it does not, SerializeBufferFull leaves the
\* integers that fitted in the unused bytes and the offset where it was.
serialize(self, msg) ==
    LET r == try_extend(self.buf, self.offset, encoded(msg))
    IN  IF r.ok
        THEN [ok |-> TRUE,
              buffer |-> [buf |-> r.buf, offset |-> r.at],
              count |-> r.at - self.offset]
        ELSE [ok |-> FALSE,
              buffer |-> [self EXCEPT !.buf = r.buf],
              count |-> 0]

\* What try_write and emit_heartbeats give back: whether the write went
\* through or the conversion of the ticks panicked, the buffer and the
\* TimeManager afterwards, the count returned, the message built last, the
\* ticks that the calls of ticks returned, and how deep emit_heartbeats
\* was nested.
Written(ok, panic, self, count, time, msg, ticked, depth) ==
    [ok |-> ok, panic |-> panic, buffer |-> self, count |-> count,
     time |-> time, msg |-> msg, consumed |-> ticked, depth |-> depth]

RECURSIVE try_write(_, _, _)

\* Buffer::emit_heartbeats
emit_heartbeats(self, time) ==
    LET p == peek_ticks(time)
    IN  IF p.ret > UPPER_BOUND
        THEN LET t == ticks(p.time)
                 w == try_write(self, Heartbeat(u32(t.ret)), t.time)
             IN  [w EXCEPT !.consumed = @ + t.ret, !.depth = @ + 1]
        ELSE Written(TRUE, FALSE, self, 0, p.time, None, 0, 0)

\* Buffer::try_write after its call of emit_heartbeats has returned hb.
write_message(hb, d) ==
    LET t == ticks(hb.time)
        s == serialize(hb.buffer, Message(t.ret, d))
    IN  IF hb.panic \/ ~hb.ok
        THEN [hb EXCEPT !.ok = FALSE, !.count = 0]
        ELSE IF t.ret > U16_MAX
        THEN Written(FALSE, TRUE, hb.buffer, 0, t.time, None,
                     hb.consumed + t.ret, hb.depth)
        ELSE Written(s.ok, FALSE, s.buffer, s.count, t.time,
                     Some(Message(t.ret, d)), hb.consumed + t.ret, hb.depth)

\* Buffer::try_write
try_write(self, d, time) ==
    Only({write_message(hb, d) : hb \in {emit_heartbeats(self, time)}})

\* The serializing half of DataBuffer::try_write: the offset afterwards is
\* the length of the buffer less the length of the slice to_slice returns,
\* which is the slice it has written.
data_buffer_serialize(self, msg) ==
    LET r == try_extend(self.buf, self.offset, encoded(msg))
    IN  IF r.ok
        THEN [ok |-> TRUE,
              buffer |-> [buf |-> r.buf,
                          offset |-> Len(self.buf) - (r.at - self.offset)],
              count |-> r.at - self.offset]
        ELSE [ok |-> FALSE,
              buffer |-> [self EXCEPT !.buf = r.buf],
              count |-> 0]

RECURSIVE data_buffer_try_write(_, _, _)

\* DataBuffer::emit_heartbeats
data_buffer_emit_heartbeats(self, time) ==
    LET p == peek_ticks(time)
    IN  IF p.ret > UPPER_BOUND
        THEN LET t == ticks(p.time)
                 w == data_buffer_try_write(self, Heartbeat(u32(t.ret)), t.time)
             IN  [w EXCEPT !.consumed = @ + t.ret, !.depth = @ + 1]
        ELSE Written(TRUE, FALSE, self, 0, p.time, None, 0, 0)

\* DataBuffer::try_write after its call of emit_heartbeats has returned hb.
data_buffer_write_message(hb, d) ==
    LET t == ticks(hb.time)
        s == data_buffer_serialize(hb.buffer, Message(t.ret, d))
    IN  IF hb.panic \/ ~hb.ok
        THEN [hb EXCEPT !.ok = FALSE, !.count = 0]
        ELSE IF t.ret > U16_MAX
        THEN Written(FALSE, TRUE, hb.buffer, 0, t.time, None,
                     hb.consumed + t.ret, hb.depth)
        ELSE Written(s.ok, FALSE, s.buffer, s.count, t.time,
                     Some(Message(t.ret, d)), hb.consumed + t.ret, hb.depth)

\* DataBuffer::try_write
data_buffer_try_write(self, d, time) ==
    Only({data_buffer_write_message(hb, d) :
             hb \in {data_buffer_emit_heartbeats(self, time)}})

\* DataBuffer::write: a try_write that did not go through fails the
\* expect, which panics.
data_buffer_write(self, d, time) ==
    Only({[ok |-> w.ok, expect_failed |-> ~w.ok /\ ~w.panic,
           panic |-> w.panic, buffer |-> w.buffer, count |-> w.count,
           time |-> w.time, msg |-> w.msg, consumed |-> w.consumed,
           depth |-> w.depth] : w \in {data_buffer_try_write(self, d, time)}})

\* The reading of one variable-length integer off the front of bytes, of
\* at most left bytes; one that does not end within them is a bad varint.
RECURSIVE try_take_varint(_, _)
try_take_varint(bytes, left) ==
    IF bytes = << >> \/ left = 0
    THEN [ok |-> FALSE, value |-> u32(0), rest |-> bytes]
    ELSE IF bytes[1] < 128
    THEN [ok |-> TRUE, value |-> u32(bytes[1]), rest |-> Tail(bytes)]
    ELSE Only({[more EXCEPT !.value = shift_left_7(@, bytes[1] - 128)] :
                  more \in {try_take_varint(Tail(bytes), left - 1)}})

\* The bytes the largest value of an integer type takes: 3 for the 16-bit
\* types, 5 for u32.
MaxBytes(type) == IF type = "u32" THEN Len(varint_u32(U32_MAX))
                  ELSE Len(varint(U16_MAX))

\* The reading of one integer of a type: a value beyond the type is a bad
\* varint as well. A u32 is returned as its halves.
take_varint(bytes, type) ==
    LET r == try_take_varint(bytes, MaxBytes(type))
    IN  IF ~r.ok \/ r.value.hi > (IF type = "u32" THEN U16_MAX ELSE 0)
        THEN [ok |-> FALSE, value |-> 0, rest |-> bytes]
        ELSE CASE type = "u32" -> r
               [] type = "u16" -> [r EXCEPT !.value = @.lo]
               [] OTHER -> [r EXCEPT !.value = unzigzag(@.lo)]

\* Buffer::read_t for an integer type T: the buffer advanced by the bytes
\* read, and left where it was when postcard::take_from_bytes fails.
read_t(self, type) ==
    LET r == take_varint(SubSeq(self.buf, self.offset + 1, Len(self.buf)),
                         type)
    IN  [ok |-> r.ok, value |-> r.value,
         buffer |-> [self EXCEPT !.offset = Len(self.buf) - Len(r.rest)]]

\* The reading of n fields of a type.
RECURSIVE take_fields(_, _, _)
take_fields(bytes, type, n) ==
    IF n = 0 THEN [ok |-> TRUE, fields |-> << >>, rest |-> bytes]
    ELSE LET f == take_varint(bytes, type)
             more == take_fields(f.rest, type, n - 1)
         IN  [ok |-> f.ok /\ more.ok, fields |-> << f.value >> \o more.fields,
              rest |-> more.rest]

\* The index of a variant read as a u32: the index when it is one of Data,
\* and none of them otherwise.
VariantOf(w) == IF w.hi = 0 /\ FieldCount(w.lo) > 0 THEN w.lo ELSE -1

\* Buffer::read on the bytes left to read: the message and the rest.
buffer_read(bytes) ==
    LET t == take_varint(bytes, "u16")
        v == take_varint(t.rest, "u32")
        n == IF v.ok THEN FieldCount(VariantOf(v.value)) ELSE 0
        f == take_fields(v.rest, FieldType(VariantOf(v.value)), n)
    IN  IF ~t.ok \/ ~v.ok \/ n = 0 \/ ~f.ok
        THEN [ok |-> FALSE, ticks |-> 0, data |-> Heartbeat(u32(0)),
              rest |-> bytes]
        ELSE [ok |-> TRUE, ticks |-> t.value,
              data |-> [variant |-> VariantOf(v.value), fields |-> f.fields],
              rest |-> f.rest]

\* Buffer::read: the buffer advanced by the bytes read.
read_message(self) ==
    LET r == buffer_read(SubSeq(self.buf, self.offset + 1, Len(self.buf)))
    IN  [ok |-> r.ok, ticks |-> r.ticks, data |-> r.data,
         buffer |-> [self EXCEPT !.offset = Len(self.buf) - Len(r.rest)]]

\* The data items read, one after the other, out of bytes, and the bytes
\* left over when no further message can be read.
RECURSIVE read_all(_)
read_all(bytes) ==
    LET r == buffer_read(bytes)
    IN  IF ~r.ok
        THEN [items |-> << >>, rest |-> bytes]
        ELSE LET more == read_all(r.rest)
             IN  [items |-> << r.data >> \o more.items, rest |-> more.rest]

\* The messages of the streams that are read back, and the streams: up to
\* two messages, and one that ends in a variant index that is none.
StoredMessages ==
    {Message(0, BarometerCalibration(1, 2, 3, 4, 5, 6)),
     Message(1, BarometerData(U32_MAX, u32(1))),
     Message(0, HighGAccelerometerData(-1, 1, 0)),
     Message(0, TicksPerSecond(u32(5))),
     Message(U16_MAX, Heartbeat(u32(UPPER_BOUND + 1))),
     Message(0, Heartbeat(U32_MAX))}
Streams ==
    {<< >>, << 0, 5 >>}
    \cup {to_slice(a) : a \in StoredMessages}
    \cup {to_slice(a) \o to_slice(b) : a \in StoredMessages,
                                       b \in StoredMessages}
    \cup {to_slice(a) \o << 0, 5 >> : a \in StoredMessages}

\* BufferedBuffer::write once the try_write on the buffer has failed with r
\* and that on extra has returned e.
buffered_flush(r, e) ==
    LET w == write_bytes(r.buffer, SubSeq(e.buffer.buf, 1, e.count))
        through == [flush |-> "panic", buffer |-> r.buffer,
                    extra |-> e.buffer.buf, info |-> None, time |-> e.time,
                    consumed |-> r.consumed + e.consumed,
                    depth |-> IF r.depth >= e.depth THEN r.depth ELSE e.depth]
    IN  IF e.panic THEN [through EXCEPT !.flush = "overflow"]
        ELSE IF e.ok
        THEN [through EXCEPT !.flush = "Yes", !.buffer = w.buffer,
                             !.info = Some([extra_offset |-> w.ret,
                                            extra_len |-> e.count - w.ret])]
        ELSE through

\* BufferedBuffer::write once the try_write on the buffer has returned r.
buffered_retry(r, ex, d) ==
    IF r.panic \/ r.ok
    THEN [flush |-> IF r.panic THEN "overflow" ELSE "No", buffer |-> r.buffer,
          extra |-> ex, info |-> None, time |-> r.time,
          consumed |-> r.consumed, depth |-> r.depth]
    ELSE Only({buffered_flush(r, e) :
                  e \in {try_write(NewBuffer(ex), d, r.time)}})

\* BufferedBuffer::write: whether a flush is required, the buffer, extra
\* and the TimeManager afterwards, and the FlushInfo.
buffered_write(self, ex, d, time) ==
    Only({buffered_retry(r, ex, d) : r \in {try_write(self, d, time)}})

\* FlushInfo::drop: the buffer afterwards.
drop(self, ex, info) ==
    write_bytes(clear(self),
                SubSeq(ex, info.extra_offset + 1,
                       info.extra_offset + info.extra_len)).buffer

NoBufOp == [op |-> "none", ret |-> << >>, count |-> 0]

\* ------------------------------------------------------------ observation
NoOp == [op |-> "none", arg |-> 0, ok |-> TRUE, value |-> None,
         uninit |-> FALSE]

NoOutcome ==
    [ran |-> FALSE, from |-> 0, at |-> 0, later |-> << >>,
     act_elapsed |-> 0, timeout_at |-> 0, selected |-> None,
     by |-> "none", fired |-> {}, fired_in_activation |-> {},
     order |-> << >>]

Fired(before, after, s) ==
    {i \in 1 .. Len(StateOf(s).commands) : ~before[s][i] /\ after[s][i]}

\* ------------------------------------------------------- check evaluation
CheckDataSamples ==
    {Altitude(GreaterThan(b)) : b \in 0 .. MaxFloat}
    \cup {Altitude(LessThan(b)) : b \in 0 .. MaxFloat}
    \cup {Altitude(Between(up, lo)) : up \in 0 .. MaxFloat, lo \in 0 .. MaxFloat}
    \cup {ApogeeFlag(e) : e \in BOOLEAN}
    \cup {Pyro1Continuity(e) : e \in BOOLEAN}
    \cup {Pyro2Continuity(e) : e \in BOOLEAN}
    \cup {Pyro3Continuity(e) : e \in BOOLEAN}

ValueSamples ==
    {F32Value(f) : f \in 0 .. MaxFloat} \cup {BoolValue(b) : b \in BOOLEAN}

StateSamples ==
    {BoolValue(b) : b \in BOOLEAN}
    \cup {U16Value(r) : r \in 0 .. MaxRate}
    \cup {F32Value(f) : f \in 0 .. MaxFloat}

NoCmdProbe ==
    [ran |-> FALSE, kind |-> "Beacon", state |-> BoolValue(FALSE),
     result |-> Beacon(FALSE), back |-> BoolValue(FALSE)]

NoProbe ==
    [ran |-> FALSE, data |-> Pyro1Continuity(FALSE), value |-> BoolValue(FALSE),
     kind |-> "Pyro1Continuity", result |-> "unsatisfied"]

\* ------------------------------------------------------------- FrozenVec
\* The repository holds two sources of FrozenVec: src/src/frozen.rs ("src")
\* and common/src/config_format/frozen.rs ("common").
Revisions == {"src", "common"}

\* The items that are pushed; a slot holding Uninit is MaybeUninit::uninit().
Items == 1 .. MaxItem
Uninit == 0

\* FrozenVec::capacity
capacity == FrozenCap

\* FrozenVec::is_full
is_full(l) == l = capacity

\* FrozenVec::is_empty
is_empty(l) == l = 0

\* The length a push stores: *len += 1 in "common", *len = current_len + 1
\* in "src".
len_after_push(l) == l + 1

\* The test FrozenVec::push makes before it pushes: "src" compares len()
\* with capacity(), "common" asks is_full().
push_accepts_at_capacity(rev, l) ==
    IF rev = "src" THEN l <= capacity ELSE l < capacity \/ is_full(l)

push_accepts(rev, l) ==
    IF rev = "src" THEN l < capacity ELSE ~is_full(l)

\* What reading a slot that was never written can give: assume_init_ref() on
\* such a slot is undefined behaviour; the Option<&T> that comes back is
\* whatever the memory holds, None when it holds the null niche.
UninitReads ==
    {[value |-> v, uninit |-> TRUE] :
        v \in {None} \cup {Some(x) : x \in 0 .. MaxItem}}

\* FrozenVec::get, as the set of results the call can have.  "common" tests
\* index < len(); "src" indexes the whole buffer of N slots, so only
\* index >= N comes back None by the bounds check.
get(rev, b, l, index) ==
    IF rev = "common"
    THEN IF index < l
         THEN {[value |-> Some(b[index]), uninit |-> FALSE]}
         ELSE {[value |-> None, uninit |-> FALSE]}
    ELSE IF index < capacity
         THEN IF b[index] # Uninit
              THEN {[value |-> Some(b[index]), uninit |-> FALSE]}
              ELSE UninitReads
         ELSE {[value |-> None, uninit |-> FALSE]}

\* ---------------------------------------------------------------- actions
\* FrozenVec::new
FrozenNew ==
    /\ buf = [i \in 0 .. (FrozenCap - 1) |-> 0]
    /\ len = 0
    /\ push_pc = None
    /\ iter_idx = None
    /\ pushed = << >>
    /\ yielded = << >>
    /\ last_op = NoOp
    /\ push_calls = 0

\* A fresh FrozenVec nothing is done with.
FrozenParked ==
    /\ revision = "common"
    /\ FrozenNew

\* Buffer::new / DataBuffer::new on a zeroed array.
BufferNew ==
    /\ buffer = NewBuffer([i \in 1 .. BufSize |-> 0])
    /\ extra = << >>
    /\ flush_info = None
    /\ storage = << >>
    /\ written = << >>
    /\ since_flush = << >>
    /\ buf_op = NoBufOp
    /\ buf_calls = 0
    /\ cleared = FALSE
    /\ pending = 0
    /\ consumed = 0

\* Buffer::new on a stored stream, to read it back.
ReaderNew ==
    /\ \E s \in Streams : buffer = NewBuffer(s)
    /\ extra = << >>
    /\ flush_info = None
    /\ storage = << >>
    /\ written = << >>
    /\ since_flush = << >>
    /\ buf_op = NoBufOp
    /\ buf_calls = 0
    /\ cleared = FALSE
    /\ pending = 0
    /\ consumed = 0

\* A buffer nothing is written to.
BufferParked ==
    /\ buffer_kind = "Buffer"
    /\ BufferNew

\* A data object as DataWorkspace::new builds it, switching at `at`, that
\* nothing has read.
SourceNew(at) ==
    /\ source = DurationBasedNew(BoolValue(FALSE), BoolValue(TRUE), at)
    /\ clock = 0
    /\ reading = NoReading
    /\ eventual_seen = FALSE

SourceParked ==
    /\ acquisition = "data_acquisition"
    /\ SourceNew(0)

\* Nothing has been evaluated.
ChecksParked ==
    /\ probe = NoProbe
    /\ cmd_probe = NoCmdProbe

\* indices_to_refs has not run yet.
NotReturned == "running"

ConvNew ==
    /\ ref = << >>
    /\ conv_pos = [phase |-> "alloc", state |-> 1, checks |-> 0, commands |-> 0]
    /\ timeout_sets = << >>
    /\ conv_result = NotReturned

\* No conversion is asked for.
ConvParked ==
    /\ portable = [default_state |-> 0, states |-> << >>]
    /\ arena = 0
    /\ ConvNew

\* StateMachine::new on the default state of a configuration; every
\* command is freshly built (was_executed = false).
EngineInit ==
    /\ config \in Configs
    /\ now = 0
    /\ transition_at \in TransitionAts
    /\ current_state = default_state(config)
    /\ start_time = 0
    /\ last_transition_time = 0
    /\ was_executed = [s \in StateIds |->
                          [i \in 1 .. Len(StateOf(s).commands) |-> FALSE]]
    /\ sink = << >>
    /\ activation_fired = {}
    /\ outcome = NoOutcome

\* The engine before its first tick, on the scenario configuration.
EngineParked ==
    /\ EngineInit
    /\ config = "scenario"
    /\ transition_at = 0

Init ==
    /\ EngineInit
    /\ ChecksParked
    /\ FrozenParked
    /\ ConvParked
    /\ BufferParked
    /\ SourceParked

\* The platform clock advances.
Advance ==
    /\ now < MaxTime
    /\ now' = now + 1
    /\ outcome' = NoOutcome
    /\ UNCHANGED << config, transition_at, current_state, start_time,
                    last_transition_time, was_executed, sink,
                    activation_fired >>
    /\ UNCHANGED outside_engine

\* What the clock may do during one execute(): before each of the readings
\* that the call can make of it, one for each command, one for the timeout
\* and one in transition, it stands or moves on by one.
Drifts ==
    {later \in [1 .. (MAX_COMMANDS_PER_STATE + 2) -> {0, 1}] :
        sum(later) <= MaxDrift}

\* StateMachine::execute, called at the instant now; the call returns at
\* the instant of its last reading of the clock. The outcome keeps the
\* instant of the call, the steps of the clock that the readings met, the
\* time since the activation at the call and the instant up to which the
\* timeout was looked at.
execute ==
    \E later \in Drifts :
      \E m \in {Machine(current_state, last_transition_time, was_executed,
                         Clock(now, later))} :
        \E r \in {execute_from(m)}, st \in {execute_state(m)} :
          \E fired \in {Fired(was_executed, r.was_executed, current_state)} :
           /\ r.clock.now <= MaxTime
           /\ current_state' = r.current_state
           /\ last_transition_time' = r.last_transition_time
           /\ was_executed' = r.was_executed
           /\ now' = r.clock.now
           /\ sink' = sink
           /\ activation_fired' =
                  IF st.selected # None THEN {}
                  ELSE activation_fired \cup fired
           /\ outcome' =
                  [ran |-> TRUE, from |-> current_state, at |-> now,
                   later |-> SubSeq(later, 1,
                                    Len(later) - Len(r.clock.later)),
                   act_elapsed |->
                       elapsed(last_transition_time, Clock(now, << >>)).ret,
                   timeout_at |-> st.m.clock.now,
                   selected |-> st.selected,
                   by |-> IF run_checks(current_state, 1) # None
                          THEN "check"
                          ELSE IF st.selected # None THEN "timeout"
                               ELSE "none",
                   fired |-> fired,
                   fired_in_activation |-> activation_fired \cup fired,
                   order |-> executed_in_order(m, 1)]
           /\ UNCHANGED << config, transition_at, start_time >>
           /\ UNCHANGED outside_engine

Next == Advance \/ execute

Spec == Init /\ [][Next]_vars

\* --------------------------------------------- evaluation of check data
\* A check's data is asked for its kind and compared with a value; what
\* was looked at before is forgotten.
evaluate ==
    /\ \E d \in CheckDataSamples, v \in ValueSamples :
          probe' = [ran |-> TRUE, data |-> d, value |-> v, kind |-> kind(d),
                    result |-> satisfied(d, v)]
    /\ cmd_probe' = NoCmdProbe
    /\ UNCHANGED outside_checks

InitChecks ==
    /\ EngineParked
    /\ ChecksParked
    /\ FrozenParked
    /\ ConvParked
    /\ BufferParked
    /\ SourceParked

\* A command value is built from a kind and a value and read back.
construct ==
    /\ \E k \in CommandKinds, v \in StateSamples :
          cmd_probe' = [ran |-> TRUE, kind |-> k, state |-> v,
                        result |-> with_state(k, v),
                        back |-> to_value(with_state(k, v))]
    /\ probe' = NoProbe
    /\ UNCHANGED outside_checks

NextChecks == evaluate \/ construct

SpecChecks == InitChecks /\ [][NextChecks]_vars

\* ------------------------------------------------- FrozenVec operations
\* FrozenVec::push up to the first of the two writes of push_unchecked /
\* push_get_unchecked: "src" writes the element and then the length,
\* "common" increments the length and then writes the element.  A push on
\* a full vector returns Err(item) and writes nothing.
push_begin ==
    /\ push_pc = None
    /\ push_calls < MaxPushes
    /\ push_calls' = push_calls + 1
    /\ \E item \in Items :
          IF push_accepts(revision, len)
          THEN /\ IF revision = "src"
                  THEN /\ buf' = [buf EXCEPT ![len] = item]
                       /\ len' = len
                  ELSE /\ len' = len_after_push(len)
                       /\ buf' = buf
               /\ push_pc' = Some(item)
               /\ last_op' = [op |-> "push", arg |-> item, ok |-> TRUE,
                              value |-> None, uninit |-> FALSE]
          ELSE /\ last_op' = [op |-> "push", arg |-> item, ok |-> FALSE,
                              value |-> Some(item), uninit |-> FALSE]
               /\ UNCHANGED << buf, len, push_pc >>
    /\ UNCHANGED << revision, iter_idx, pushed, yielded >>
    /\ UNCHANGED outside_frozen

\* The second write of a push, after which push returns Ok(()).
push_finish ==
    /\ push_pc # None
    /\ IF revision = "src"
       THEN /\ len' = len_after_push(len)
            /\ buf' = buf
       ELSE /\ buf' = [buf EXCEPT ![len - 1] = push_pc[1]]
            /\ len' = len
    /\ pushed' = Append(pushed, push_pc[1])
    /\ push_pc' = None
    /\ UNCHANGED << revision, iter_idx, yielded, last_op, push_calls >>
    /\ UNCHANGED outside_frozen

\* A call of FrozenVec::get between two pushes.
get_call ==
    /\ push_pc = None
    /\ \E index \in 0 .. FrozenCap :
          \E r \in get(revision, buf, len, index) :
             last_op' = [op |-> "get", arg |-> index, ok |-> TRUE,
                         value |-> r.value, uninit |-> r.uninit]
    /\ UNCHANGED << revision, buf, len, push_pc, iter_idx, pushed, yielded,
                    push_calls >>
    /\ UNCHANGED outside_frozen

\* FrozenVec::iter
iter ==
    /\ push_pc = None
    /\ iter_idx' = Some(0)
    /\ yielded' = << >>
    /\ last_op' = [op |-> "iter", arg |-> 0, ok |-> TRUE, value |-> None,
                   uninit |-> FALSE]
    /\ UNCHANGED << revision, buf, len, push_pc, pushed, push_calls >>
    /\ UNCHANGED outside_frozen

\* Iter::next
next ==
    /\ push_pc = None
    /\ iter_idx # None
    /\ \E r \in get(revision, buf, len, iter_idx[1]) :
          /\ IF r.value # None
             THEN /\ iter_idx' = Some(iter_idx[1] + 1)
                  /\ yielded' = Append(yielded, r.value[1])
             ELSE UNCHANGED << iter_idx, yielded >>
          /\ last_op' = [op |-> "next", arg |-> iter_idx[1], ok |-> TRUE,
                         value |-> r.value, uninit |-> r.uninit]
    /\ UNCHANGED << revision, buf, len, push_pc, pushed, push_calls >>
    /\ UNCHANGED outside_frozen

InitFrozen ==
    /\ EngineParked
    /\ ChecksParked
    /\ revision \in Revisions
    /\ FrozenNew
    /\ ConvParked
    /\ BufferParked
    /\ SourceParked

NextFrozen == push_begin \/ push_finish \/ get_call \/ iter \/ next

SpecFrozen == InitFrozen /\ [][NextFrozen]_vars

\* ------------------------------------------------------ indices_to_refs
\* The portable states the configurations are made of.  Targets 0 and 1
\* are states of a two-state configuration, target 2 is of none.
PortableStates ==
    { IndexState(<< >>, << >>, None),
      IndexState(<< IndexCheck(Pyro1Continuity(TRUE),
                               Some(IndexTransition(0))) >>,
                 << >>,
                 Some(IndexTimeout(10, IndexAbort(0)))),
      IndexState(<< IndexCheck(Altitude(GreaterThan(1)), None),
                    IndexCheck(ApogeeFlag(TRUE), Some(IndexAbort(1))) >>,
                 << Command(DataRate(20), 0) >>,
                 None),
      IndexState(<< >>,
                 << Command(Beacon(TRUE), 5) >>,
                 Some(IndexTimeout(30, IndexTransition(1)))),
      IndexState(<< IndexCheck(Pyro2Continuity(FALSE),
                               Some(IndexTransition(2))) >>,
                 << >>, None),
      IndexState(<< >>, << >>, Some(IndexTimeout(20, IndexAbort(2)))),
      IndexState(<< IndexCheck(Pyro3Continuity(TRUE),
                               Some(IndexTransition(0))),
                    IndexCheck(Pyro1Continuity(TRUE), Some(IndexAbort(1))) >>,
                 << >>,
                 Some(IndexTimeout(5, IndexTransition(1)))),
      IndexState(<< IndexCheck(Pyro1Continuity(FALSE), Some(IndexAbort(0))),
                    IndexCheck(Pyro2Continuity(FALSE), Some(IndexAbort(0))),
                    IndexCheck(Pyro3Continuity(FALSE), Some(IndexAbort(0))) >>,
                 << Command(Beacon(FALSE), 0), Command(DataRate(1), 5),
                    Command(Beacon(TRUE), 10) >>,
                 Some(IndexTimeout(10, IndexTransition(0)))) }

\* index::ConfigFile: both fields are public and a StateIndex is built
\* unchecked (or deserialized), so every pairing can be constructed.
PortableConfigs ==
    {[default_state |-> d, states |-> ss] :
        d \in 0 .. (MaxConvStates - 1),
        ss \in UNION {[1 .. n -> PortableStates] : n \in 0 .. MaxConvStates}}

\* The slice of the executable states cut off behind the state that is
\* being linked.
RefIdsSoFar == [i \in 1 .. Min(conv_pos.state, Len(ref)) |-> ref[i].id]

\* The ids of the executable states, as transition_index_to_ref sees the
\* slice of them.
RefIds == [i \in 1 .. Len(ref) |-> ref[i].id]

\* indices_to_refs up to the end of its first loop: the array of states is
\* allocated (a layout of zero bytes is no NonZeroLayout, and the unwrap
\* panics; an arena too small makes alloc return None, which `?` returns)
\* and every slot holds State::new(i).
alloc_states ==
    /\ conv_pos.phase = "alloc"
    /\ conv_result = NotReturned
    /\ LET n == Len(portable.states)
           mem == alloc(arena, n)
       IN  IF n = 0
           THEN /\ conv_result' = "panic layout"
                /\ UNCHANGED << arena, ref, timeout_sets >>
                /\ conv_pos' = [conv_pos EXCEPT !.phase = "returned"]
           ELSE IF mem = None
           THEN /\ conv_result' = "None"
                /\ UNCHANGED << arena, ref, timeout_sets >>
                /\ conv_pos' = [conv_pos EXCEPT !.phase = "returned"]
           ELSE /\ arena' = mem[1]
                /\ ref' = [i \in 1 .. n |-> State(i - 1, << >>, << >>, None)]
                /\ timeout_sets' = [i \in 1 .. n |-> 0]
                /\ conv_pos' = [conv_pos EXCEPT !.phase = "link"]
                /\ UNCHANGED conv_result
    /\ UNCHANGED portable
    /\ UNCHANGED outside_conv

\* One turn of the loop over the checks of the state indices_to_refs is at.
link_check ==
    /\ conv_pos.phase = "link"
    /\ conv_pos.checks < Len(portable.states[conv_pos.state].checks)
    /\ LET i == conv_pos.state
           r == convert_check(ref[i].checks,
                              portable.states[i].checks[conv_pos.checks + 1],
                              RefIds, arena)
       IN  /\ ref' = [ref EXCEPT ![i].checks = r.items]
           /\ arena' = r.left
           /\ IF r.outcome = "ok"
              THEN /\ conv_pos' = [conv_pos EXCEPT !.checks = @ + 1]
                   /\ UNCHANGED conv_result
              ELSE /\ conv_pos' = [conv_pos EXCEPT !.phase = "returned"]
                   /\ conv_result' = r.outcome
    /\ UNCHANGED << portable, timeout_sets >>
    /\ UNCHANGED outside_conv

\* One turn of the loop over the commands of that state.
link_command ==
    /\ conv_pos.phase = "link"
    /\ conv_pos.checks = Len(portable.states[conv_pos.state].checks)
    /\ conv_pos.commands < Len(portable.states[conv_pos.state].commands)
    /\ LET i == conv_pos.state
           r == convert_command(ref[i].commands,
                                portable.states[i].commands[conv_pos.commands + 1],
                                arena)
       IN  /\ ref' = [ref EXCEPT ![i].commands = r.items]
           /\ arena' = r.left
           /\ IF r.outcome = "ok"
              THEN /\ conv_pos' = [conv_pos EXCEPT !.commands = @ + 1]
                   /\ UNCHANGED conv_result
              ELSE /\ conv_pos' = [conv_pos EXCEPT !.phase = "returned"]
                   /\ conv_result' = r.outcome
    /\ UNCHANGED << portable, timeout_sets >>
    /\ UNCHANGED outside_conv

\* The end of the turn for one state: its timeout, if it has one, is
\* resolved and set; after the last state indices_to_refs returns
\* Some(init).
link_timeout ==
    /\ conv_pos.phase = "link"
    /\ conv_pos.checks = Len(portable.states[conv_pos.state].checks)
    /\ conv_pos.commands = Len(portable.states[conv_pos.state].commands)
    /\ LET i == conv_pos.state
           timeout == portable.states[i].timeout
           ref_timeout == convert_timeout(timeout[1], RefIds)
           last == i = Len(portable.states)
       IN  IF timeout # None /\ ref_timeout.transition.tag = "Panic"
           THEN /\ conv_result' = "panic index"
                /\ conv_pos' = [conv_pos EXCEPT !.phase = "returned"]
                /\ UNCHANGED << ref, timeout_sets >>
           ELSE /\ IF timeout # None
                   THEN /\ ref' = [ref EXCEPT ![i].timeout = Some(ref_timeout)]
                        /\ timeout_sets' = [timeout_sets EXCEPT ![i] = @ + 1]
                   ELSE UNCHANGED << ref, timeout_sets >>
                /\ conv_pos' = IF last
                               THEN [conv_pos EXCEPT !.phase = "returned"]
                               ELSE [conv_pos EXCEPT !.state = i + 1,
                                                     !.checks = 0,
                                                     !.commands = 0]
                /\ conv_result' = IF last THEN "Some" ELSE conv_result
    /\ UNCHANGED << portable, arena >>
    /\ UNCHANGED outside_conv

InitConv ==
    /\ EngineParked
    /\ ChecksParked
    /\ FrozenParked
    /\ portable \in PortableConfigs
    /\ arena \in 0 .. MaxArena
    /\ ConvNew
    /\ BufferParked
    /\ SourceParked

NextConv == alloc_states \/ link_check \/ link_command \/ link_timeout

SpecConv == InitConv /\ [][NextConv]_vars

\* ----------------------------------------------- Buffer, BufferedBuffer
\* The byte slices given to write_bytes.
Srcs == UNION {[1 .. n -> 0 .. MaxByte] : n \in 0 .. MaxSrc}

\* The data items written.
DataItems ==
    {BarometerData(u32(t), u32(p)) : t \in 0 .. MaxByte, p \in 0 .. MaxByte}
    \cup {Heartbeat(u32(n)) : n \in 0 .. MaxByte}
    \cup {TicksPerSecond(u32(MaxByte)),
          HighGAccelerometerData(-1, 0, MaxByte),
          BarometerCalibration(0, 1, 0, 1, 0, MaxByte)}

\* Buffer::write_bytes on a plain Buffer.
write_bytes_call ==
    /\ buffer_kind = "Buffer"
    /\ buf_calls < MaxBufCalls
    /\ buf_calls' = buf_calls + 1
    /\ \E src \in Srcs :
          LET w == write_bytes(buffer, src)
          IN  /\ buffer' = w.buffer
              /\ buf_op' = [op |-> "write_bytes", ret |-> src, count |-> w.ret]
              /\ since_flush' = since_flush \o SubSeq(src, 1, w.ret)
    /\ UNCHANGED << buffer_kind, cleared, extra, flush_info, storage, written,
                    pending, consumed >>
    /\ UNCHANGED outside_buffer

\* Buffer::flush, also through BufferedBuffer::flush, and DataBuffer::flush;
\* the user stores the slice returned.
flush_call ==
    /\ buffer_kind # "Reader"
    /\ flush_info = None
    /\ buf_op.op \notin {"panic", "overflow"}
    /\ LET f == flush(buffer)
       IN  /\ buffer' = f.buffer
           /\ buf_op' = [op |-> "flush", ret |-> f.ret, count |-> Len(f.ret)]
           /\ storage' = IF buffer_kind = "BufferedBuffer"
                         THEN storage \o f.ret
                         ELSE storage
    /\ since_flush' = << >>
    /\ UNCHANGED << buffer_kind, cleared, extra, flush_info, written, buf_calls,
                    pending, consumed >>
    /\ UNCHANGED outside_buffer

\* Buffer::clear, also through BufferedBuffer::clear: the offset goes back
\* to 0 and nothing else changes; what the user has stored stays stored.
clear_call ==
    /\ buffer_kind \in {"Buffer", "BufferedBuffer", "Reader"}
    /\ flush_info = None
    /\ buf_op.op # "panic"
    /\ buffer' = clear(buffer)
    /\ buf_op' = [op |-> "clear", ret |-> << >>, count |-> 0]
    /\ cleared' = (cleared \/ buffer.offset > 0)
    /\ UNCHANGED << buffer_kind, extra, flush_info, storage, written,
                    since_flush, buf_calls, pending, consumed >>
    /\ UNCHANGED outside_buffer

\* Buffer::read on a Buffer made over a stored stream.
buffer_read_call ==
    /\ buffer_kind = "Reader"
    /\ LET r == read_message(buffer)
       IN  /\ buffer' = r.buffer
           /\ buf_op' = [op |-> "read", ret |-> buffer_data(r.buffer),
                         count |-> r.buffer.offset - buffer.offset,
                         ok |-> r.ok, ticks |-> r.ticks, data |-> r.data]
    /\ UNCHANGED << buffer_kind, cleared, extra, flush_info, storage,
                    written, since_flush, buf_calls, pending, consumed >>
    /\ UNCHANGED outside_buffer

\* Buffer::read_t on the same Buffer, for one of the integer types of the
\* format in place of Message.
read_t_call ==
    /\ buffer_kind = "Reader"
    /\ \E type \in {"u16", "i16", "u32"} :
          LET r == read_t(buffer, type)
          IN  /\ buffer' = r.buffer
              /\ buf_op' = [op |-> "read_t", ret |-> buffer_data(r.buffer),
                            count |-> r.buffer.offset - buffer.offset,
                            ok |-> r.ok, type |-> type, value |-> r.value]
    /\ UNCHANGED << buffer_kind, cleared, extra, flush_info, storage,
                    written, since_flush, buf_calls, pending, consumed >>
    /\ UNCHANGED outside_buffer

\* What BufferedBuffer::write of the item d does to the buffer, to extra
\* and to the TimeManager.
write_item(d, time) ==
    \E w \in {buffered_write(buffer, extra, d, time)} :
        /\ buffer' = w.buffer
        /\ extra' = w.extra
        /\ flush_info' = w.info
        /\ pending' = w.time.count
        /\ consumed' = consumed + w.consumed
        /\ written' = Append(written, d)
        /\ buf_op' = [op |-> IF w.flush \in {"panic", "overflow"}
                             THEN w.flush ELSE "write",
                      ret |-> << >>,
                      count |-> IF w.flush = "Yes" THEN 1 ELSE 0,
                      consumed |-> w.consumed,
                      depth |-> w.depth,
                      during |-> sum(time.later)]

\* What DataBuffer::write of the item d does to the buffer and to the
\* TimeManager.
data_buffer_write_item(d, time) ==
    \E w \in {data_buffer_write(buffer, d, time)} :
        /\ buffer' = w.buffer
        /\ pending' = w.time.count
        /\ consumed' = consumed + w.consumed
        /\ written' = IF w.ok THEN Append(written, d) ELSE written
        /\ since_flush' = IF w.ok THEN since_flush \o to_slice(w.msg[1])
                          ELSE since_flush
        /\ buf_op' = [op |-> IF w.panic THEN "overflow"
                             ELSE IF w.expect_failed THEN "panic"
                             ELSE "write",
                      ret |-> IF w.ok THEN to_slice(w.msg[1]) ELSE << >>,
                      count |-> w.count,
                      consumed |-> w.consumed,
                      depth |-> w.depth,
                      during |-> sum(time.later)]

\* DataBuffer::write with a TimeManager for which no tick passes.
data_buffer_write_call ==
    /\ buffer_kind = "DataBuffer"
    /\ buf_op.op \notin {"panic", "overflow"}
    /\ buf_calls < MaxWrites
    /\ buf_calls' = buf_calls + 1
    /\ \E d \in DataItems : data_buffer_write_item(d, NullTimeManager)
    /\ UNCHANGED << buffer_kind, cleared, extra, flush_info, storage >>
    /\ UNCHANGED outside_buffer

\* The user stores the page FlushInfo::buf returns, and the FlushInfo is
\* dropped.
page_done ==
    /\ flush_info # None
    /\ storage' = storage \o buffer.buf
    /\ buffer' = drop(buffer, extra, flush_info[1])
    /\ flush_info' = None
    /\ buf_op' = [op |-> "page", ret |-> buffer.buf, count |-> Len(buffer.buf)]
    /\ UNCHANGED << buffer_kind, cleared, extra, written, since_flush, buf_calls,
                    pending, consumed >>
    /\ UNCHANGED outside_buffer

InitBuffer ==
    /\ EngineParked
    /\ ChecksParked
    /\ FrozenParked
    /\ ConvParked
    /\ SourceParked
    /\ \/ /\ buffer_kind \in {"Buffer", "DataBuffer"}
          /\ BufferNew
       \/ /\ buffer_kind = "Reader"
          /\ ReaderNew

NextBuffer ==
    \/ write_bytes_call
    \/ flush_call
    \/ clear_call
    \/ buffer_read_call
    \/ read_t_call
    \/ data_buffer_write_call

SpecBuffer == InitBuffer /\ [][NextBuffer]_vars

\* ------------------------------------------------------- timed writes
\* The numbers of ticks a TimeManager is let count up to between writes.
Pendings ==
    {a + b * UPPER_BOUND : a \in 0 .. MaxSmallTicks, b \in 0 .. MaxLongWaits}

\* The ticks the clock counts on between two of its reads within one write:
\* none, one, as many as are left between UPPER_BOUND and u16::MAX, and one
\* more; and what it counts on before each of the first MaxReads reads of a
\* write, on at most MaxLate of them.
InCall == {0, 1, U16_MAX - UPPER_BOUND, U16_MAX - UPPER_BOUND + 1}
Schedules ==
    {s \in UNION {[1 .. n -> InCall] : n \in 0 .. MaxReads} :
        /\ Cardinality({i \in 1 .. Len(s) : s[i] # 0}) <= MaxLate
        /\ (s # << >>) => (s[Len(s)] # 0)}

\* The data items logged.
LogItems == {BarometerData(u32(0), u32(1)), TicksPerSecond(U32_MAX)}

\* Ticks pass between two writes.
elapse ==
    /\ flush_info = None
    /\ pending = 0
    /\ buf_op.op \notin {"panic", "overflow"}
    /\ buf_calls < MaxLogWrites
    /\ \E t \in Pendings : t > pending /\ pending' = t
    /\ UNCHANGED << buffer_kind, cleared, buffer, extra, flush_info, storage, written,
                    since_flush, buf_op, buf_calls, consumed >>
    /\ UNCHANGED outside_buffer

\* BufferedBuffer::write, with the TimeManager as the ticks passed since
\* the last write have left it and as it counts on while the write runs
\* (with nothing pending and no tick during the write it is the
\* NullTimeManager of the tests).  No FlushInfo of an earlier write is
\* alive, as it borrows the BufferedBuffer.  A message extra cannot hold
\* panics, and so do ticks that do not fit a u16.
write ==
    /\ buffer_kind = "BufferedBuffer"
    /\ flush_info = None
    /\ buf_op.op \notin {"panic", "overflow"}
    /\ buf_calls < MaxLogWrites
    /\ buf_calls' = buf_calls + 1
    /\ \E d \in LogItems, later \in Schedules :
          write_item(d, TimeManager(pending, later))
    /\ UNCHANGED << buffer_kind, cleared, storage, since_flush >>
    /\ UNCHANGED outside_buffer

\* DataBuffer::write with a TimeManager that counts.
data_buffer_log ==
    /\ buffer_kind = "DataBuffer"
    /\ buf_op.op \notin {"panic", "overflow"}
    /\ buf_calls < MaxLogWrites
    /\ buf_calls' = buf_calls + 1
    /\ \E d \in LogItems, later \in Schedules :
          data_buffer_write_item(d, TimeManager(pending, later))
    /\ UNCHANGED << buffer_kind, cleared, extra, flush_info, storage >>
    /\ UNCHANGED outside_buffer

\* Buffer::try_write and DataBuffer::try_write, called directly.
try_write_call ==
    /\ buffer_kind \in {"Buffer", "DataBuffer"}
    /\ buf_op.op \notin {"panic", "overflow"}
    /\ buf_calls < MaxLogWrites
    /\ buf_calls' = buf_calls + 1
    /\ \E d \in LogItems, later \in Schedules :
          \E w \in {IF buffer_kind = "Buffer"
                    THEN try_write(buffer, d, TimeManager(pending, later))
                    ELSE data_buffer_try_write(buffer, d,
                                               TimeManager(pending, later))} :
              /\ buffer' = w.buffer
              /\ pending' = w.time.count
              /\ consumed' = consumed + w.consumed
              /\ written' = IF w.ok THEN Append(written, d) ELSE written
              /\ buf_op' = [op |-> IF w.panic THEN "overflow" ELSE "try_write",
                            ret |-> IF w.msg = None THEN << >>
                                    ELSE to_slice(w.msg[1]),
                            count |-> w.count,
                            ok |-> w.ok,
                            data |-> d,
                            consumed |-> w.consumed,
                            depth |-> w.depth,
                            during |-> sum(later)]
    /\ UNCHANGED << buffer_kind, cleared, extra, flush_info, storage, since_flush >>
    /\ UNCHANGED outside_buffer

InitLog ==
    /\ EngineParked
    /\ ChecksParked
    /\ FrozenParked
    /\ ConvParked
    /\ SourceParked
    /\ buffer_kind \in {"Buffer", "BufferedBuffer", "DataBuffer"}
    /\ buffer = NewBuffer([i \in 1 .. LogBufSize |-> 0])
    /\ extra = [i \in 1 .. LogExtraSize |-> 0]
    /\ flush_info = None
    /\ storage = << >>
    /\ written = << >>
    /\ since_flush = << >>
    /\ buf_op = NoBufOp
    /\ buf_calls = 0
    /\ cleared = FALSE
    /\ pending = 0
    /\ consumed = 0

NextLog ==
    \/ elapse
    \/ write
    \/ data_buffer_log
    \/ try_write_call
    \/ page_done
    \/ flush_call

SpecLog == InitLog /\ [][NextLog]_vars

\* ----------------------------------------------- simulated data source
\* The clock of the data sources advances; it never goes back.
tick ==
    /\ clock < MaxClock
    /\ clock' = clock + 1
    /\ UNCHANGED << acquisition, source, reading, eventual_seen >>
    /\ UNCHANGED outside_source

\* DurationBased::read
read_call ==
    LET value == duration_based_read(acquisition, source, clock)
    IN /\ reading' = [done |-> TRUE, at |-> clock, value |-> value,
                      after_eventual |-> eventual_seen]
       /\ eventual_seen' = (eventual_seen \/ value = source.eventual)
       /\ UNCHANGED << acquisition, source, clock >>
       /\ UNCHANGED outside_source

InitSource ==
    /\ EngineParked
    /\ ChecksParked
    /\ FrozenParked
    /\ ConvParked
    /\ BufferParked
    /\ acquisition \in Acquisitions
    /\ \E at \in 0 .. MaxClock : SourceNew(at)

NextSource == tick \/ read_call

SpecSource == InitSource /\ [][NextSource]_vars

\* ================================================================ claims
\* Helpers of the claims: what the documented engine is to observe.

\* The live value a check is to be compared with at time t.
LiveValue(check, t) == get_object(kind(check.data), t)

\* The checks of state s that are satisfied at time t and carry a transition.
SatisfiedWithTransition(s, t) ==
    {i \in 1 .. Len(StateOf(s).checks) :
        /\ satisfied(StateOf(s).checks[i].data,
                     LiveValue(StateOf(s).checks[i], t)) = "satisfied"
        /\ StateOf(s).checks[i].transition # None}

\* The first of them in declaration order (defined when there is one).
FirstSatisfied(s, t) ==
    CHOOSE i \in SatisfiedWithTransition(s, t) :
        \A j \in SatisfiedWithTransition(s, t) : i <= j

\* The instant at which the state the last tick ran in was activated.
ActivationStart == outcome.at - outcome.act_elapsed

\* The engine at rest: its fields with the clock standing at now.
Standing ==
    Machine(current_state, last_transition_time, was_executed,
            Clock(now, << >>))

\* The live values satisfy the same checks of the state the last tick ran
\* in when the tick was called and when it returned.
SameThroughTick ==
    SatisfiedWithTransition(outcome.from, outcome.at)
        = SatisfiedWithTransition(outcome.from, now)

\* How often the sink received object since the instant from.
Deliveries(object, from) ==
    Cardinality({k \in 1 .. Len(sink) :
                    sink[k].object = object /\ sink[k].time >= from})

\* C1: in one tick the checks are evaluated in declaration order and the
\* transition of the first satisfied check (that has one) is the one taken:
\* after the tick current_state is that transition's target.
C1_FirstSatisfiedCheckTaken ==
    (outcome.ran /\ SameThroughTick
                 /\ SatisfiedWithTransition(outcome.from, now) # {})
    => LET c == StateOf(outcome.from).checks[FirstSatisfied(outcome.from, now)]
       IN /\ outcome.selected = c.transition
          /\ current_state = c.transition[1].state

\* C2: in a tick in which no check selects a transition, the timeout's
\* transition of the state is taken if and only if the time elapsed since
\* that state was activated, when the tick looks at the timeout, is at
\* least the timeout's duration.
C2_TimeoutSinceActivation ==
    (outcome.ran /\ outcome.by # "check"
                 /\ StateOf(outcome.from).timeout # None)
    => (outcome.by = "timeout"
        <=> outcome.timeout_at - ActivationStart
               >= StateOf(outcome.from).timeout[1].time)

\* C3: within one activation a command whose delay has elapsed has been
\* delivered to the command sink exactly once.
C3_DeliveredExactlyOnce ==
    outcome.ran
    => \A i \in 1 .. Len(StateOf(outcome.from).commands) :
          outcome.act_elapsed >= StateOf(outcome.from).commands[i].delay
          => Deliveries(StateOf(outcome.from).commands[i].object,
                        ActivationStart) = 1

\* C4: re-entering a state resets the fired flag of its commands: in every
\* activation, a command whose delay has elapsed since the activation has
\* fired in that activation.
C4_FiresInEveryActivation ==
    outcome.ran
    => \A i \in 1 .. Len(StateOf(outcome.from).commands) :
          outcome.act_elapsed >= StateOf(outcome.from).commands[i].delay
          => i \in outcome.fired_in_activation

\* C5: one execute() performs at most one transition: afterwards the engine
\* is in the state it was in or in the target of the one transition selected
\* there, whatever the checks and the timeout of the entered state say.
C5_AtMostOneTransitionPerTick ==
    outcome.ran
    => IF outcome.selected = None
       THEN current_state = outcome.from
       ELSE current_state = outcome.selected[1].state

\* A tick has entered a state whose own timeout already reads as expired.
C5_Witness ==
    /\ outcome.ran
    /\ outcome.selected # None
    /\ check_timeout(Standing).selected # None
    /\ check_timeout(Standing).selected[1].state # current_state

\* C6: a tick that selects a transition sets current_state to its target and
\* activation_time to the time of the tick; the state with a 2.0 s timeout to
\* Y and no satisfied check is left exactly once, for Y, by the first tick at
\* or after 2.0 s.
C6_TransitionEffect ==
    (outcome.ran /\ outcome.selected # None)
    => /\ current_state = outcome.selected[1].state
       /\ last_transition_time = now

C6_TimeoutScenario ==
    config = "timeout"
    => /\ current_state = 0 => (/\ last_transition_time = start_time
                                /\ ~(outcome.ran /\ now >= 20))
       /\ current_state = 1 => last_transition_time >= 20
       /\ current_state \in {0, 1}

C6_TransitionOnTimeout ==
    /\ [](C6_TransitionEffect /\ C6_TimeoutScenario)
    /\ [][(config = "timeout" /\ current_state = 1)
          => UNCHANGED << current_state, last_transition_time >>]_vars

\* The 2.0 s timeout has fired and the engine has kept ticking in Y.
C6_Witness ==
    /\ config = "timeout"
    /\ current_state = 1
    /\ outcome.ran
    /\ now > last_transition_time
    /\ last_transition_time > 20

\* C7: when a check with a transition is satisfied in the tick in which the
\* timeout has expired as well, the check's transition is taken, not the
\* timeout's.
C7_CheckBeforeTimeout ==
    (/\ outcome.ran
     /\ SameThroughTick
     /\ SatisfiedWithTransition(outcome.from, now) # {}
     /\ StateOf(outcome.from).timeout # None
     /\ outcome.act_elapsed >= StateOf(outcome.from).timeout[1].time)
    => /\ outcome.by = "check"
       /\ outcome.selected # Some(StateOf(outcome.from).timeout[1].transition)

\* C8: Safe/Poweron/Launch started in Poweron with Pyro1Continuity false on
\* every tick: the engine is in Poweron before 3.0 s and in Safe once a tick
\* has run at or after 3.0 s.
C8_ScenarioEndsInSafe ==
    (config = "scenario" /\ transition_at > MaxTime)
    => /\ now < 30 => current_state = 1
       /\ (outcome.ran /\ now >= 30) => current_state = 0
       /\ current_state \in {0, 1}

\* The engine has ticked for 3.1 s and sits in Safe.
C8_Witness ==
    /\ config = "scenario"
    /\ transition_at > MaxTime
    /\ now = 31
    /\ outcome.ran
    /\ current_state = 0
    /\ satisfied(StateOf(1).checks[1].data,
                 LiveValue(StateOf(1).checks[1], now)) = "unsatisfied"

\* C9: the same scenario with Pyro1Continuity true from the first tick: the
\* first tick enters Launch, and after 4.0 s in Launch the sink has received
\* DataRate(16) exactly once.
C9_ScenarioLaunch ==
    (config = "scenario" /\ transition_at = 0 /\ now >= 1 /\ outcome.ran)
    => /\ current_state = 2
       /\ (outcome.from = 2 /\ outcome.act_elapsed >= 40)
          => Deliveries(DataRate(16), 0) = 1

\* C10: a tick that selects no transition leaves current_state and
\* activation_time (and the rest of the engine) unchanged and changes at most
\* the fired flags of commands of the current state.
C10_NoTransitionFrame ==
    [][(outcome'.ran /\ outcome'.selected = None)
       => /\ UNCHANGED << current_state, last_transition_time, start_time,
                          sink >>
          /\ \A s \in StateIds :
                s # current_state => was_executed'[s] = was_executed[s]]_vars

\* A tick without a transition has fired a command.
C10_Witness ==
    /\ outcome.ran
    /\ outcome.selected = None
    /\ outcome.fired # {}
    /\ last_transition_time > 0

\* The executable states as the first pass of the conversion lays them out.
RefStates == [i \in 1 .. Len(states(config)) |-> i - 1]

\* Portable checks over the states of the configuration.
IndexChecks ==
    {IndexCheck(d, t) :
        d \in {Pyro1Continuity(TRUE), Pyro2Continuity(FALSE),
               Altitude(GreaterThan(100)), ApogeeFlag(TRUE)},
        t \in {None} \cup {Some(IndexTransition(i)) : i \in StateIds}
                     \cup {Some(IndexAbort(i)) : i \in StateIds}}

\* C11: a check without a transition is inert: every transition a tick takes
\* is the timeout's or the transition of a check that has one, whatever the
\* sources deliver; the conversion keeps an absent transition absent (and a
\* present one present).
C11_InertCheck ==
    /\ (outcome.ran /\ outcome.selected # None)
       => \/ /\ outcome.by = "timeout"
             /\ StateOf(outcome.from).timeout # None
             /\ outcome.selected
                  = Some(StateOf(outcome.from).timeout[1].transition)
          \/ /\ outcome.by = "check"
             /\ \E i \in 1 .. Len(StateOf(outcome.from).checks) :
                   /\ StateOf(outcome.from).checks[i].transition # None
                   /\ outcome.selected
                        = StateOf(outcome.from).checks[i].transition
    /\ \A c \in IndexChecks :
          /\ check_index_to_ref(c, RefStates).data = c.data
          /\ (check_index_to_ref(c, RefStates).transition = None)
             <=> (c.transition = None)

\* A tick has run in a state whose only check is inert and satisfied by the
\* live value, and the engine has stayed.
C11_Witness ==
    /\ config = "timeout"
    /\ outcome.ran
    /\ outcome.from = 0
    /\ StateOf(0).checks[1].transition = None
    /\ satisfied(StateOf(0).checks[1].data,
                 LiveValue(StateOf(0).checks[1], now)) = "satisfied"
    /\ outcome.selected = None
    /\ current_state = 0

\* The shape of value the condition of a check's data compares with.
ShapeDemanded(data) == IF data.variant = "Altitude" THEN "F32" ELSE "Bool"

\* The shape of value each kind of check is documented to receive.
ShapeOfKind(k) == IF k = "Altitude" THEN "F32" ELSE "Bool"

FloatSamples == 0 .. MaxFloat

\* C12: a tick in which the value the data source returns for a check has
\* another shape than the check's data demands ends in a panic: it neither
\* goes on as if the check were unsatisfied nor takes a transition.
C12_MismatchPanics ==
    (/\ outcome.ran
     /\ Len(StateOf(outcome.from).checks) >= 1
     /\ LiveValue(StateOf(outcome.from).checks[1], now).shape
          # ShapeDemanded(StateOf(outcome.from).checks[1].data))
    => outcome.by = "panic"

\* C13: for every CheckKind the data source returns a value of the shape the
\* check condition expects, a float for Altitude and a bool for the flags,
\* on every call.
C13_SourceShapes ==
    \A k \in CheckKinds : get_object(k, now).shape = ShapeOfKind(k)

\* C14: CheckData::kind maps every variant of CheckData onto the CheckKind of
\* the same name.
C14_KindOfSameName ==
    probe.ran => probe.kind = probe.data.variant

\* C15: an Altitude check is satisfied iff value > b for GreaterThan(b),
\* value < b for LessThan(b) and lower_bound <= value <= upper_bound for
\* Between; a flag check iff the live boolean equals the expected one.
C15_ConditionsAsStated ==
    (probe.ran /\ probe.value.shape = ShapeDemanded(probe.data))
    => ((probe.result = "satisfied")
        <=> IF probe.data.variant = "Altitude"
            THEN CASE probe.data.cond.op = "GreaterThan"
                        -> probe.value.v > probe.data.cond.bound
                   [] probe.data.cond.op = "LessThan"
                        -> probe.value.v < probe.data.cond.bound
                   [] OTHER
                        -> /\ probe.data.cond.lower_bound <= probe.value.v
                           /\ probe.value.v <= probe.data.cond.upper_bound
            ELSE probe.data.cond = probe.value.v)

\* C16: push never succeeds beyond N elements: len() <= N after every step,
\* a push on a vector with len() = N is rejected, and a rejected push gives
\* back the item it was called with and changes neither len() nor a slot.
C16_PushBounded ==
    [][/\ len' <= FrozenCap
       /\ (push_pc = None /\ len = FrozenCap /\ last_op'.op = "push")
          => ~last_op'.ok
       /\ (last_op'.op = "push" /\ ~last_op'.ok)
          => /\ len = FrozenCap
             /\ last_op'.value = Some(last_op'.arg)
             /\ len' = len
             /\ buf' = buf
             /\ pushed' = pushed]_vars

C16_Witness ==
    /\ last_op.op = "push"
    /\ ~last_op.ok
    /\ len = FrozenCap
    /\ Len(pushed) = FrozenCap

\* C17: get(index) is None for every index >= len(), also below the
\* capacity, and is the element pushed at that position for index < len().
C17_GetBoundedByLen ==
    (last_op.op = "get")
    => IF last_op.arg < len
       THEN last_op.value = Some(pushed[last_op.arg + 1])
       ELSE last_op.value = None

\* The sequence yielded so far is the beginning of what was pushed.
YieldedIsPrefix ==
    /\ Len(yielded) <= Len(pushed)
    /\ \A i \in 1 .. Len(yielded) : yielded[i] = pushed[i]

\* C18: the iterator yields the pushed elements in push order, and when it
\* ends it has yielded exactly len() elements, the sequence a reference
\* vector with the same pushes holds.
C18_IterationAsReference ==
    (last_op.op = "next")
    => /\ YieldedIsPrefix
       /\ (last_op.value = None) => (yielded = pushed /\ Len(yielded) = len)

\* C19: a written slot is never overwritten or removed, len() never
\* decreases, and no operation reads a slot at an index >= len().
C19_AppendOnly ==
    [][/\ len' >= len
       /\ \A i \in 0 .. (FrozenCap - 1) :
             (buf[i] # Uninit) => (buf'[i] = buf[i])
       /\ ~last_op'.uninit]_vars

\* C20: at every step of a push every index below the visible length holds
\* an initialised element, and every element a read returns was pushed
\* before the read.
C20_NoPartialSlot ==
    /\ \A i \in 0 .. (len - 1) : buf[i] # Uninit
    /\ (last_op.op \in {"get", "next"} /\ last_op.value # None)
       => \E j \in 1 .. Len(pushed) : pushed[j] = last_op.value[1]

\* C21: len() is always equal to the number of push operations that have
\* been performed; is_empty() holds iff len() = 0 and is_full() iff
\* len() = capacity().
C21_LenCountsPushCalls ==
    (push_pc = None)
    => /\ len = push_calls
       /\ is_empty(len) <=> (push_calls = 0)
       /\ is_full(len) <=> (push_calls = capacity)

\* Every transition target of the portable configuration is the position
\* of one of its states.
IndicesValid ==
    \A i \in 1 .. Len(portable.states) :
       /\ \A j \in 1 .. Len(portable.states[i].checks) :
             LET t == portable.states[i].checks[j].transition
             IN  t # None => t[1].index < Len(portable.states)
       /\ LET t == portable.states[i].timeout
          IN  t # None => t[1].transition.index < Len(portable.states)

\* A valid portable configuration: the default state and every target is
\* one of its states.
ValidPortable ==
    /\ portable.default_state < Len(portable.states)
    /\ IndicesValid

\* C22: for a valid portable configuration indices_to_refs returns one
\* executable state per portable state, in order, with its position as id,
\* the same checks (data, presence and tag of the transition, target by
\* position) and the same commands (object and delay), in the same order.
C22_StructurePreserved ==
    (ValidPortable /\ conv_result = "Some")
    => /\ Len(ref) = Len(portable.states)
       /\ \A i \in 1 .. Len(ref) :
             /\ ref[i].id = i - 1
             /\ Len(ref[i].checks) = Len(portable.states[i].checks)
             /\ ref[i].commands = portable.states[i].commands
             /\ \A j \in 1 .. Len(ref[i].checks) :
                   LET c == ref[i].checks[j]
                       p == portable.states[i].checks[j]
                   IN  /\ c.data = p.data
                       /\ (c.transition = None) <=> (p.transition = None)
                       /\ c.transition # None
                          => /\ c.transition[1].tag = p.transition[1].tag
                             /\ c.transition[1].state = p.transition[1].index

\* A two-state configuration with a check that points forward to the second
\* state has been converted.
C22_Witness ==
    /\ ValidPortable
    /\ conv_result = "Some"
    /\ Len(ref) = 2
    /\ \E j \in 1 .. Len(ref[1].checks) :
          /\ ref[1].checks[j].transition # None
          /\ ref[1].checks[j].transition[1].state = 1
    /\ ref[1].commands # << >>

\* C23: an executable state has a timeout iff its portable state has one,
\* with the same duration, the same tag and the state at the portable
\* target index; no timeout cell is set more than once.
C23_TimeoutsPreserved ==
    /\ \A i \in 1 .. Len(timeout_sets) : timeout_sets[i] <= 1
    /\ (ValidPortable /\ conv_result = "Some")
       => \A i \in 1 .. Len(ref) :
             LET t == ref[i].timeout
                 p == portable.states[i].timeout
             IN  /\ (t = None) <=> (p = None)
                 /\ t # None
                    => /\ t[1].time = p[1].time
                       /\ t[1].transition.tag = p[1].transition.tag
                       /\ t[1].transition.state = p[1].transition.index
                       /\ timeout_sets[i] = 1

\* Two states with a timeout each, one a Transition to the other state, one
\* an Abort, have been converted.
C23_Witness ==
    /\ ValidPortable
    /\ conv_result = "Some"
    /\ Len(ref) = 2
    /\ ref[1].timeout # None
    /\ ref[2].timeout # None
    /\ ref[2].timeout[1].transition = Transition(1)
    /\ ref[1].timeout[1].transition.tag = "Abort"

\* C24: for a portable configuration with valid indices and collections
\* within the capacities, a configuration without states included, the
\* conversion returns the executable states; it fails in no other way than
\* by one of the two capacity panics.
C24_TotalOnWellFormed ==
    (IndicesValid /\ conv_pos.phase = "returned")
    => conv_result \in {"Some", "panic capacity"}

\* C25: when the arena runs out the conversion ends in None or a panic:
\* whenever it returns Some(states), every portable check, command and
\* timeout is in them.
C25_NoPartialGraph ==
    (conv_result = "Some")
    => \A i \in 1 .. Len(portable.states) :
          /\ Len(ref[i].checks) = Len(portable.states[i].checks)
          /\ Len(ref[i].commands) = Len(portable.states[i].commands)
          /\ (portable.states[i].timeout # None) => (ref[i].timeout # None)

\* The arena has run out after some checks or commands were linked, and
\* the conversion has panicked with a graph that lacks some.
C25_Witness ==
    /\ conv_result = "panic alloc"
    /\ arena = 0
    /\ \E i \in 1 .. Len(ref) : ref[i].checks # << >>
    /\ \E i \in 1 .. Len(ref) :
          Len(ref[i].commands) < Len(portable.states[i].commands)

\* C26: in every ConfigFile that can be constructed, default_state is the
\* position of one of its states, and so is every transition target.
C26_IndicesAlwaysValid ==
    ValidPortable

\* The kind and the value given to with_state have matching shapes.
ShapesMatch ==
    \/ cmd_probe.kind \in {"Pyro1", "Pyro2", "Pyro3", "Beacon"}
       /\ cmd_probe.state.shape = "Bool"
    \/ cmd_probe.kind = "DataRate" /\ cmd_probe.state.shape = "U16"

\* C27: with_state(kind, value) is the CommandValue of that kind carrying
\* that value when the shapes match, so that to_value() gives the value
\* back, and panics for every other pairing.
C27_WithState ==
    cmd_probe.ran
    => IF ShapesMatch
       THEN /\ cmd_probe.result.kind = cmd_probe.kind
            /\ cmd_probe.back = cmd_probe.state
       ELSE cmd_probe.result = Panicked

\* with_state has been given a data rate for a pyro channel and has
\* panicked.
C27_Witness ==
    /\ cmd_probe.ran
    /\ cmd_probe.kind = "Pyro2"
    /\ cmd_probe.state = U16Value(MaxRate)
    /\ cmd_probe.result = Panicked

\* C28: write_bytes(src) copies the first min(src.len(), remaining())
\* bytes of src behind the bytes already written, returns that count and
\* keeps what was written; offset stays within the buffer, and a write to a
\* full buffer writes nothing.
C28_WriteBytes ==
    [][(buf_op'.op = "write_bytes" /\ buf_calls' = buf_calls + 1)
       => /\ buf_op'.count = Min(Len(buf_op'.ret), BufSize - buffer.offset)
          /\ buffer_data(buffer')
               = buffer_data(buffer) \o SubSeq(buf_op'.ret, 1, buf_op'.count)
          /\ buffer'.offset = buffer.offset + buf_op'.count
          /\ buffer'.offset <= BufSize
          /\ buffer'.offset + remaining(buffer') = BufSize
          /\ Len(buffer'.buf) = BufSize
          /\ (buffer.offset = BufSize)
             => (buf_op'.count = 0 /\ buffer' = buffer)]_vars

\* A write of more bytes than were free has filled the buffer.
C28_Witness ==
    /\ buf_op.op = "write_bytes"
    /\ buf_op.count > 0
    /\ buf_op.count < Len(buf_op.ret)
    /\ remaining(buffer) = 0

\* C29: flush returns the bytes written since the last flush (or since the
\* buffer was made), as long as no clear has dropped any, and clears the
\* buffer: after it data() and a second flush() are empty and remaining()
\* is the size of the buffer.
C29_Flush ==
    [][(buf_op'.op = "flush")
       => /\ buf_op'.ret = buffer_data(buffer)
          /\ (buffer_kind \in {"Buffer", "DataBuffer"} /\ ~cleared)
             => (buf_op'.ret = since_flush)
          /\ buffer_data(buffer') = << >>
          /\ remaining(buffer') = BufSize
          /\ (buf_op.op = "flush") => (buf_op'.ret = << >>)]_vars

\* A Buffer that held bytes of two writes has been flushed.
C29_Witness ==
    /\ buffer_kind = "Buffer"
    /\ buf_op.op = "flush"
    /\ Len(buf_op.ret) > MaxSrc
    /\ buffer.offset = 0

\* The data items among items: every message but the heartbeats, which the
\* writes put into the stream themselves (no Heartbeat is among LogItems).
WithoutHeartbeats(items) ==
    SelectSeq(items, LAMBDA d : d.variant # Heartbeat(u32(0)).variant)

\* C30: after a sequence of writes, with no clear that dropped written
\* bytes, the pages handed out by write, in order, followed by the final
\* flush, read back as exactly the data items written, in order (with the
\* heartbeats the writes emitted in between), with no byte left over.
C30_NothingLost ==
    (buffer_kind = "BufferedBuffer" /\ buf_op.op = "flush" /\ ~cleared)
    => /\ read_all(storage).rest = << >>
       /\ WithoutHeartbeats(read_all(storage).items) = written

\* The commands of the current state that are not yet executed and whose
\* delay has elapsed since the state was activated, with the clock at now.
Eligible ==
    {i \in 1 .. Len(StateOf(current_state).commands) :
        /\ ~was_executed[current_state][i]
        /\ elapsed(last_transition_time, Clock(now, << >>)).ret
              >= StateOf(current_state).commands[i].delay}

Retagged(tr) ==
    IF tr.tag = "Transition" THEN Abort(tr.state) ELSE Transition(tr.state)

\* C32: Transition(target) and Abort(target) change the engine state
\* identically: a tick that takes one of them ends with the current_state and
\* the activation time that taking the other at the same time yields, and
\* with the command flags that the run of the commands left.
C32_AbortAsTransition ==
    [][(outcome'.ran /\ outcome'.selected # None)
       => LET m == Machine(current_state, last_transition_time,
                           was_executed, Clock(now, outcome'.later))
              other == transition(execute_state(m).m,
                                  Retagged(outcome'.selected[1]))
          IN /\ current_state' = other.current_state
             /\ last_transition_time' = other.last_transition_time
             /\ was_executed' = other.was_executed
             /\ was_executed' = run_commands(m, 1).was_executed]_vars

\* An Abort has been taken some time after the state left was activated.
C32_Witness ==
    /\ outcome.ran
    /\ outcome.selected # None
    /\ outcome.selected[1].tag = "Abort"
    /\ outcome.act_elapsed > 0
    /\ current_state # outcome.from

\* C33: within a tick the commands of the current state run before its
\* checks and timeout: in a tick that transitions away every eligible
\* command of the state left fires, and no command of another state, the
\* entered one included, changes its flag in that tick.
C33_CommandsBeforeTransition ==
    [][(outcome'.ran /\ outcome'.selected # None)
       => /\ \A i \in Eligible : was_executed'[current_state][i]
          /\ \A s \in StateIds \ {current_state} :
                was_executed'[s] = was_executed[s]]_vars

\* A tick has fired commands and left the state for one whose command has no
\* delay; that command is not fired yet.
C33_Witness ==
    /\ outcome.ran
    /\ outcome.selected # None
    /\ outcome.fired # {}
    /\ current_state # outcome.from
    /\ StateOf(current_state).commands # << >>
    /\ StateOf(current_state).commands[1].delay = 0
    /\ ~was_executed[current_state][1]

\* C37: DurationBased::read returns `initial` when read before
\* `transition_at` and `eventual` when read after it; the clock never going
\* back, a read that follows a read of `eventual` does not return `initial`.
C37_InitialThenEventual ==
    reading.done
    => /\ reading.at < source.transition_at => reading.value = source.initial
       /\ reading.at > source.transition_at => reading.value = source.eventual
       /\ reading.after_eventual => reading.value # source.initial

\* The transitions resolved so far: the position of the state that holds
\* each, its tag and target as resolved, and its portable target index.
Resolved ==
    UNION {
        {[from |-> i - 1, state |-> ref[i].checks[j].transition[1].state,
          index |-> portable.states[i].checks[j].transition[1].index] :
            j \in {k \in 1 .. Len(ref[i].checks) :
                      ref[i].checks[k].transition # None}}
        \cup (IF ref[i].timeout # None
              THEN {[from |-> i - 1,
                     state |-> ref[i].timeout[1].transition.state,
                     index |-> portable.states[i].timeout[1].transition.index]}
              ELSE {}) :
        i \in 1 .. Len(ref)}

\* C34: all executable states being allocated before any linking, a
\* transition to the state itself and to a later-declared state resolves
\* like one to an earlier state: no resolution of a valid index fails, and
\* the resolved target is the executable state at the target index, for
\* every position of source and target.
C34_SelfAndForwardResolved ==
    ValidPortable
    => /\ conv_result # "panic index"
       /\ \A r \in Resolved :
             /\ r.state = r.index
             /\ ref[r.index + 1].id = r.index

\* A configuration has been converted in which a transition points to its
\* own state, one to a later state and one to an earlier state.
C34_Witness ==
    /\ ValidPortable
    /\ conv_result = "Some"
    /\ \E r \in Resolved : r.state = r.from
    /\ \E r \in Resolved : r.state > r.from
    /\ \E r \in Resolved : r.state < r.from

\* C35: for every portable configuration, whose states hold at most
\* MAX_CHECKS_PER_STATE checks and MAX_COMMANDS_PER_STATE commands, no push
\* into an executable state's collection is rejected: the conversion never
\* ends in a capacity panic, and an executable state never holds more than
\* the portable state at its position.
C35_NoCapacityPanic ==
    /\ conv_result # "panic capacity"
    /\ \A i \in 1 .. Len(ref) :
          /\ Len(ref[i].checks) <= Len(portable.states[i].checks)
          /\ Len(ref[i].commands) <= Len(portable.states[i].commands)

\* A state that fills both of its collections has been converted.
C35_Witness ==
    /\ conv_result = "Some"
    /\ \E i \in 1 .. Len(ref) :
          /\ Len(portable.states[i].checks) = MAX_CHECKS_PER_STATE
          /\ Len(portable.states[i].commands) = MAX_COMMANDS_PER_STATE
          /\ Len(ref[i].checks) = MAX_CHECKS_PER_STATE
          /\ Len(ref[i].commands) = MAX_COMMANDS_PER_STATE

\* C36: an iterator observes the elements pushed after it was created and
\* before it reaches their index: next() called for an index yields the
\* element pushed at that index when the index is below len() at that
\* moment and ends otherwise, and with pushes in between the iterator has
\* yielded the elements before its index, none skipped and none repeated.
C36_IterSeesLaterPushes ==
    (last_op.op = "next")
    => /\ IF last_op.arg < len
          THEN last_op.value = Some(pushed[last_op.arg + 1])
          ELSE last_op.value = None
       /\ iter_idx[1] <= Len(pushed)
       /\ yielded = SubSeq(pushed, 1, iter_idx[1])

\* C38: a try_write that succeeds with a message of k bytes advances the
\* offset by exactly k, puts those k bytes directly behind the bytes
\* written before and leaves these as they were; a try_write that fails
\* for lack of space leaves the offset where it was.
C38_TryWriteAdvancesByCount ==
    [][(buf_op'.op = "try_write" /\ buf_calls' = buf_calls + 1)
       => IF buf_op'.ok
          THEN /\ buffer'.offset = buffer.offset + Len(buf_op'.ret)
               /\ buffer_data(buffer') = buffer_data(buffer) \o buf_op'.ret
          ELSE buffer'.offset = buffer.offset]_vars

\* C39: the ticks stored in a message fit 16 bits: whatever number of
\* ticks has passed between two writes, the conversion of what ticks()
\* returns in try_write does not panic, the message written carries at most
\* u16::MAX ticks, and emit_heartbeats is not entered again from the
\* try_write of its own heartbeat.
C39_TicksFitU16 ==
    /\ buf_op.op # "overflow"
    /\ buf_op.op \in {"write", "panic", "try_write"} => buf_op.depth <= 1
    /\ (buf_op.op = "try_write" /\ buf_op.ret # << >>)
       => buffer_read(buf_op.ret).ticks <= U16_MAX

\* The ticks the messages in bytes account for: ticks_since_last_message
\* of each and the value of each Heartbeat.
RECURSIVE stream_ticks(_)
stream_ticks(bytes) ==
    LET r == buffer_read(bytes)
    IN  IF ~r.ok THEN u32(0)
        ELSE plus(plus(u32(r.ticks),
                       IF r.data.variant = Heartbeat(u32(0)).variant
                       THEN r.data.fields[1] ELSE u32(0)),
                  stream_ticks(r.rest))

\* C40: no time is lost in the logged stream: the ticks the messages
\* stored account for, in the pages handed out and in the buffer, are the
\* ticks that the calls of ticks() returned, also after a write that did
\* not fit the buffer and went through extra.
C40_NoTimeLost ==
    (buffer_kind = "BufferedBuffer" /\ flush_info = None
        /\ buf_op.op \notin {"panic", "overflow"})
    => stream_ticks(storage \o buffer_data(buffer)) = u32(consumed)

====
